---- MODULE Spec2Model ----
(***************************************************************************)
(* PeerCafe backend: the order lifecycle and dispatch engine.              *)
(*                                                                         *)
(* The order table lives in an external store (Supabase).  Every handler   *)
(* of routes/order_routes.py talks to it through separate calls: a select  *)
(* that loads the row, sometimes a second select, an update that writes    *)
(* the changed columns, and a re-fetch that builds the response.  Each     *)
(* store call is atomic; the handler's own checks between two calls read   *)
(* only the rows the handler loaded.  A handler is therefore modelled as   *)
(* the sequence of its store calls, one step per call, run by a worker.    *)
(* With a single worker the handlers run one after the other; with two     *)
(* workers (two server processes on one store) their calls interleave.     *)
(***************************************************************************)
EXTENDS Integers, Sequences, FiniteSets, TLC

VARIABLES
    orders,     \* the "orders" table: order_id -> row
    req,        \* worker -> the request it is serving (its position and locals)
    order_ids,  \* the order ids uuid4() draws in this run
    codes,      \* the codes random.randint() draws in this run
    couriers,   \* the delivery users that send requests in this run
    workers,    \* the workers this deployment runs
    ENABLE_ACTIVE_ORDER_CHECK,  \* the environment toggle of assign_delivery_user
    order_inputs,   \* the OrderCreate payloads the clients send in this run
    resp,       \* the last response of place_order, get_order_by_id or list_orders
    record,     \* the order record handed to _sanitize_order_record
    counts,     \* _sanitization_counts
    passes,     \* how many times the record has been through the sanitizer
    cent_over,  \* how abs(a - b) > 0.01 falls for the amounts of this run that
                \* are exactly a cent apart
    rows,       \* result.data of the select a delivery route starts with
    calls,      \* the calls the last delivery request made to the mapping
                \* provider and to the users table, with their answers
    MAX_DEST_PER_MATRIX,    \* the environment's limit of destinations per matrix request
    sanitization_lock,      \* _sanitization_lock: the thread that holds it, or Unlocked
    made        \* (history) how many passes of this run made each correction

\* what the handlers of the order lifecycle leave alone
deskVars == <<order_inputs, resp, record, counts, passes, cent_over, sanitization_lock, made>>

\* the lock of the counters and the history of the passes
lockVars == <<sanitization_lock, made>>

\* what only the delivery routes touch
deliveryVars == <<rows, calls, MAX_DEST_PER_MATRIX>>

\* what the delivery routes leave alone
lifecycleVars == <<orders, req, order_ids, codes, couriers, workers, ENABLE_ACTIVE_ORDER_CHECK>>
storeVars == <<orders, order_ids, codes, couriers, workers, ENABLE_ACTIVE_ORDER_CHECK>>

vars == <<orders, req, order_ids, codes, couriers, workers, ENABLE_ACTIVE_ORDER_CHECK,
          order_inputs, resp, record, counts, passes, cent_over,
          rows, calls, MAX_DEST_PER_MATRIX, sanitization_lock, made>>

----------------------------------------------------------------------------
(* Bounds of the model, and the sets the requests' inputs are drawn from *)

\* the number of couriers (delivery users), numbered from 1
NumCouriers == 2
\* the number of distinct codes random.randint() may draw
NumCodes == 2

\* the longest list of order items
MaxItems == 2
\* the number of times a record is handed to the sanitizer
MaxPasses == 2

OrderIds == {"o1", "o2"}
Couriers == 1..NumCouriers
Workers == {"w1", "w2"}

----------------------------------------------------------------------------
(* Python values *)

\* Optional[...] columns: None, or a value
None == <<>>
Some(v) == <<v>>

\* a value of a JSON payload or of a text/numeric column: None, a str (a
\* sequence of characters) or an int
PyNone == [type |-> "none", str |-> <<>>, int |-> 0]
PyStr(s) == [type |-> "str", str |-> s, int |-> 0]
PyInt(n) == [type |-> "int", str |-> <<>>, int |-> n]

Digit(d) ==
    CASE d = 0 -> "0" [] d = 1 -> "1" [] d = 2 -> "2" [] d = 3 -> "3"
      [] d = 4 -> "4" [] d = 5 -> "5" [] d = 6 -> "6" [] d = 7 -> "7"
      [] d = 8 -> "8" [] d = 9 -> "9"

RECURSIVE IntStr(_)
\* str(n) / f"{n}" of a non-negative int: its decimal digits
IntStr(n) == IF n < 10 THEN <<Digit(n)>> ELSE Append(IntStr(n \div 10), Digit(n % 10))

\* str(v)
Str(v) ==
    CASE v.type = "int" -> IntStr(v.int)
      [] v.type = "str" -> v.str
      [] OTHER -> <<"N", "o", "n", "e">>

IsSpace(c) == c \in {" ", "\t", "\n"}

RECURSIVE LStrip(_)
LStrip(s) == IF s # <<>> /\ IsSpace(Head(s)) THEN LStrip(Tail(s)) ELSE s

RECURSIVE RStrip(_)
RStrip(s) == IF s # <<>> /\ IsSpace(s[Len(s)]) THEN RStrip(SubSeq(s, 1, Len(s) - 1)) ELSE s

\* s.strip()
Strip(s) == RStrip(LStrip(s))

\* bool(v): None, "" and 0 are falsy
Truthy(v) ==
    CASE v.type \in {"int", "float"} -> v.int # 0
      [] v.type = "str" -> v.str # <<>>
      [] OTHER -> FALSE

\* a float.  Amounts of money are held in thousandths, so that 12.99 is
\* 12990 and a tenth of a cent can be told from a cent
PyFloat(m) == [type |-> "float", str |-> <<>>, int |-> m]

IsDigit(c) == c \in {"0", "1", "2", "3", "4", "5", "6", "7", "8", "9"}

DigitValue(c) ==
    CASE c = "0" -> 0 [] c = "1" -> 1 [] c = "2" -> 2 [] c = "3" -> 3
      [] c = "4" -> 4 [] c = "5" -> 5 [] c = "6" -> 6 [] c = "7" -> 7
      [] c = "8" -> 8 [] c = "9" -> 9

AllDigits(s) == s # <<>> /\ \A i \in DOMAIN s : IsDigit(s[i])

RECURSIVE Digits(_)
\* the number a string of digits writes
Digits(s) ==
    IF s = <<>> THEN 0
    ELSE 10 * Digits(SubSeq(s, 1, Len(s) - 1)) + DigitValue(s[Len(s)])

\* float(s) of a str, in thousandths: digits, or digits, a point and up to
\* three digits; any other text raises ValueError (None)
ParseFloat(s) ==
    LET t == Strip(s)
        points == {i \in DOMAIN t : t[i] = "."}
    IN  IF AllDigits(t) THEN Some(1000 * Digits(t))
        ELSE IF Cardinality(points) # 1 THEN None
        ELSE LET i == CHOOSE j \in points : TRUE
                 whole == SubSeq(t, 1, i - 1)
                 frac == SubSeq(t, i + 1, Len(t))
             IN  IF AllDigits(whole) /\ AllDigits(frac) /\ Len(frac) <= 3
                 THEN Some(1000 * Digits(whole)
                           + Digits(frac) * (CASE Len(frac) = 1 -> 100
                                               [] Len(frac) = 2 -> 10
                                               [] OTHER -> 1))
                 ELSE None

\* float(v), in thousandths; None when it raises
Float(v) ==
    CASE v.type = "float" -> Some(v.int)
      [] v.type = "int" -> Some(1000 * v.int)
      [] v.type = "str" -> ParseFloat(v.str)
      [] OTHER -> None

\* a + b on the stored values, where a str or None operand raises TypeError
Number(v) ==
    CASE v.type = "float" -> Some(v.int)
      [] v.type = "int" -> Some(1000 * v.int)
      [] OTHER -> None

\* x or d, for a number x that may be None
Or(x, d) == IF x = None \/ x[1] = 0 THEN d ELSE x[1]

Abs(x) == IF x < 0 THEN -x ELSE x

\* a * b of two floats held in thousandths
Mul(a, b) == (a * b) \div 1000

\* round(x, 2): to the nearest cent
Round2(m) == IF m < 0 THEN -(((-m + 5) \div 10) * 10) ELSE ((m + 5) \div 10) * 10

\* the tolerance 0.01 of the amount comparisons
Tolerance == 10

\* abs(a - b) > 0.01.  The amounts are binary floating-point numbers: when
\* they are a cent apart their difference falls just above or just below
\* 0.01 (abs(10.01 - 10.0) > 0.01 is False, abs(20.01 - 20.0) > 0.01 is True),
\* and cent_over says which it is for the amounts of this run
Exceeds(a, b) == Abs(a - b) > Tolerance \/ (Abs(a - b) = Tolerance /\ cent_over)

RECURSIVE Sum(_)
\* sum(amounts)
Sum(amounts) == IF amounts = <<>> THEN 0 ELSE Head(amounts) + Sum(Tail(amounts))

\* d.get(k, default)
Get(d, k, default) == IF k \in DOMAIN d THEN d[k] ELSE default

\* order[k] = v
SetItem(order, k, v) == [j \in DOMAIN order \cup {k} |-> IF j = k THEN v ELSE order[j]]

\* isinstance(it, dict): the items of this model are dicts, None or a str
IsDict(it) == "type" \notin DOMAIN it

----------------------------------------------------------------------------
(* OrderStatus *)

PENDING == "pending"
CONFIRMED == "confirmed"
PREPARING == "preparing"
READY == "ready"
ASSIGNED == "assigned"
PICKED_UP == "picked_up"
EN_ROUTE == "en_route"
DELIVERED == "delivered"
CANCELLED == "cancelled"

OrderStatus ==
    {PENDING, CONFIRMED, PREPARING, READY, ASSIGNED, PICKED_UP, EN_ROUTE, DELIVERED, CANCELLED}

----------------------------------------------------------------------------
(* The store *)

\* supabase.table("orders").select("*").eq("order_id", id).execute().data
Select(tbl, id) == IF id \in DOMAIN tbl THEN <<tbl[id]>> ELSE <<>>

\* row | update_data: the columns update_data names are overwritten
Merge(row, update_data) ==
    [f \in DOMAIN row |-> IF f \in DOMAIN update_data THEN update_data[f] ELSE row[f]]

\* supabase.table("orders").update(update_data).eq("order_id", id).execute():
\* the table afterwards (an update of an absent row changes nothing)
Update(tbl, id, update_data) ==
    [o \in DOMAIN tbl |-> IF o = id THEN Merge(tbl[o], update_data) ELSE tbl[o]]

\* supabase.table("orders").insert(row).execute()
Insert(tbl, id, row) ==
    [o \in DOMAIN tbl \cup {id} |-> IF o = id THEN row ELSE tbl[o]]

----------------------------------------------------------------------------
(* Requests *)

\* an update_data dict with no key
NoData == [f \in {} |-> FALSE]

NoResponse == [status_code |-> 0, detail |-> <<>>]
HTTPException(code, detail) == [status_code |-> code, detail |-> detail]
OK == [status_code |-> 200, detail |-> <<>>]

Idle ==
    [pc |-> "idle", op |-> "", order_id |-> "", new_status |-> "",
     delivery_user_id |-> 0, payload |-> PyNone, update_data |-> NoData,
     response |-> NoResponse]

\* the request's handler has raised or returned: its locals are gone and the
\* response is ready
Done(r, response) ==
    [Idle EXCEPT !.pc = "done", !.op = r.op, !.order_id = r.order_id, !.response = response]

\* the worker is free to take a request
Free(w) == w \in workers /\ req[w].pc = "idle"

\* the handler's locals once its checks have passed and update_data is built
Writing(r, update_data) == [r EXCEPT !.pc = "update", !.update_data = update_data]

\* datetime.now().isoformat(): the claims read whether a time column is set,
\* never which instant it holds, so every instant is the one token
now == "2025-01-01T00:00:00"

----------------------------------------------------------------------------
(* models/order_model.py: the validation of OrderItem and OrderCreate *)

\* the example payload of OrderCreate: two pizzas at 12.99
ExampleOrder ==
    [user_id |-> PyStr(<<"u", "1">>),
     delivery_address |-> PyStr(<<"c">>),
     order_items |-> <<[price |-> 12990, quantity |-> 2, subtotal |-> 25980]>>,
     subtotal |-> 25980,
     tax_amount |-> 2080,
     delivery_fee |-> 3990,
     tip_amount |-> 5000,
     discount_amount |-> 0,
     total_amount |-> 37050]

\* OrderItem: the field constraints and validate_subtotal
ValidateOrderItem(item) ==
    /\ item.price > 0
    /\ item.quantity > 0
    /\ item.subtotal > 0
    /\ LET expected_subtotal == Round2(item.price * item.quantity)
       IN  ~Exceeds(item.subtotal, expected_subtotal)

\* (mutant) a validate_order that does not compare the subtotal with the items
ValidateOrder_NoSubtotalCheck(order_data) ==
    LET expected_total ==
            order_data.subtotal + order_data.tax_amount + order_data.delivery_fee
            + order_data.tip_amount - order_data.discount_amount
    IN  ~Exceeds(order_data.total_amount, expected_total)

\* (mutant) a validate_order that does not compare the total with its parts
ValidateOrder_NoTotalCheck(order_data) ==
    LET calculated_subtotal ==
            Sum([i \in DOMAIN order_data.order_items |-> order_data.order_items[i].subtotal])
    IN  ~Exceeds(order_data.subtotal, calculated_subtotal)

\* OrderCreate.validate_order: TRUE when it raises nothing
ValidateOrder(order_data) ==
    LET calculated_subtotal ==
            Sum([i \in DOMAIN order_data.order_items |-> order_data.order_items[i].subtotal])
        expected_total ==
            order_data.subtotal + order_data.tax_amount + order_data.delivery_fee
            + order_data.tip_amount - order_data.discount_amount
    IN  /\ ~Exceeds(order_data.subtotal, calculated_subtotal)
        /\ ~Exceeds(order_data.total_amount, expected_total)

\* OrderCreate(**data): the field constraints, the items, then validate_order
ValidateOrderCreate(order_data) ==
    /\ Len(order_data.order_items) >= 1
    /\ \A i \in DOMAIN order_data.order_items : ValidateOrderItem(order_data.order_items[i])
    /\ order_data.subtotal > 0
    /\ order_data.tax_amount >= 0
    /\ order_data.delivery_fee >= 0
    /\ order_data.tip_amount >= 0
    /\ order_data.discount_amount >= 0
    /\ order_data.total_amount > 0
    /\ ValidateOrder(order_data)

----------------------------------------------------------------------------
(* Responses of the handlers that make one store call *)

\* no request has been answered yet
NoReply == [op |-> "", status_code |-> 0, body |-> <<>>]

\* the response of handler op: a status code and the list of order records
\* it carries
Reply(op, status_code, body) == [op |-> op, status_code |-> status_code, body |-> body]

----------------------------------------------------------------------------
(* place_order *)

\* item.model_dump()
ItemDump(item) ==
    [price |-> PyFloat(item.price),
     quantity |-> PyInt(item.quantity),
     subtotal |-> PyFloat(item.subtotal)]

\* the row place_order inserts; the columns it does not name take the
\* table's defaults
NewOrderRow(order_data, t) ==
    [status |-> PENDING,
     user_id |-> order_data.user_id,
     delivery_address |-> order_data.delivery_address,
     delivery_user_id |-> None,
     delivery_code |-> PyNone,
     delivery_code_used |-> FALSE,
     actual_pickup_time |-> None,
     actual_delivery_time |-> None,
     updated_at |-> t,
     order_items |-> [i \in DOMAIN order_data.order_items |-> ItemDump(order_data.order_items[i])],
     subtotal |-> PyFloat(order_data.subtotal),
     tax_amount |-> PyFloat(order_data.tax_amount),
     delivery_fee |-> PyFloat(order_data.delivery_fee),
     tip_amount |-> PyFloat(order_data.tip_amount),
     discount_amount |-> PyFloat(order_data.discount_amount),
     total_amount |-> PyFloat(order_data.total_amount)]

\* the request body is validated before the handler runs (422); the handler
\* inserts the row under the id uuid4() drew and returns it
PlaceOrder(id, order_data) ==
    /\ id \notin DOMAIN orders
    /\ IF ~ValidateOrderCreate(order_data)
       THEN /\ resp' = Reply("place", 422, <<>>)
            /\ UNCHANGED orders
       ELSE /\ orders' = Insert(orders, id, NewOrderRow(order_data, now))
            /\ resp' = Reply("place", 201, <<orders'[id]>>)
    /\ UNCHANGED <<req, order_ids, codes, couriers, workers, ENABLE_ACTIVE_ORDER_CHECK,
                   order_inputs, record, counts, passes, cent_over, lockVars, deliveryVars>>

----------------------------------------------------------------------------
(* update_order_status *)

\* random.randint(100000, 999999)
CodeMin == 100000
CodeMax == 999999
GeneratedCodes == (CodeMin .. (CodeMin + NumCodes - 2)) \cup {CodeMax}

\* (mutant) a pickup check that also lets a pending order through
UpdateStatusCheck_PickupFromPending(existing_order, new_status) ==
    IF existing_order = <<>>
    THEN HTTPException(404, <<"Order not found">>)
    ELSE LET current_status == existing_order[1].status IN
         IF new_status = PICKED_UP
            /\ current_status \notin {ASSIGNED, READY, CONFIRMED, PENDING}
         THEN HTTPException(400,
                <<"Invalid transition: cannot mark as picked_up from '", current_status, "'">>)
         ELSE IF new_status = DELIVERED /\ current_status \notin {PICKED_UP, EN_ROUTE}
         THEN HTTPException(400,
                <<"Invalid transition: cannot mark as delivered from '", current_status, "'">>)
         ELSE NoResponse

\* the HTTPException the handler raises for the rows it loaded, or NoResponse
UpdateStatusCheck(existing_order, new_status) ==
    IF existing_order = <<>>
    THEN HTTPException(404, <<"Order not found">>)
    ELSE LET current_status == existing_order[1].status IN
         IF new_status = PICKED_UP /\ current_status \notin {ASSIGNED, READY, CONFIRMED}
         THEN HTTPException(400,
                <<"Invalid transition: cannot mark as picked_up from '", current_status, "'">>)
         ELSE IF new_status = DELIVERED /\ current_status \notin {PICKED_UP, EN_ROUTE}
         THEN HTTPException(400,
                <<"Invalid transition: cannot mark as delivered from '", current_status, "'">>)
         ELSE NoResponse

\* (mutant) a pickup that issues a fresh code whether or not the row has one
UpdateStatusData_AlwaysNewCode(existing_row, new_status, code, t) ==
    LET base == [status |-> new_status, updated_at |-> t] IN
    IF new_status = PICKED_UP
    THEN base @@ [actual_pickup_time |-> Some(t),
                  delivery_code |-> PyStr(IntStr(code)),
                  delivery_code_used |-> FALSE]
    ELSE IF new_status = DELIVERED
    THEN base @@ [actual_delivery_time |-> Some(t)]
    ELSE base

\* (mutant) a generic update to delivered that also marks the code used
UpdateStatusData_MarksCodeUsed(existing_row, new_status, code, t) ==
    LET base == [status |-> new_status, updated_at |-> t] IN
    IF new_status = PICKED_UP
    THEN IF ~Truthy(existing_row.delivery_code)
         THEN base @@ [actual_pickup_time |-> Some(t),
                       delivery_code |-> PyStr(IntStr(code)),
                       delivery_code_used |-> FALSE]
         ELSE base @@ [actual_pickup_time |-> Some(t)]
    ELSE IF new_status = DELIVERED
    THEN base @@ [actual_delivery_time |-> Some(t), delivery_code_used |-> TRUE]
    ELSE base

\* update_data: the status and updated_at, the actual times, and at pickup a
\* fresh code when the loaded row has none
UpdateStatusData(existing_row, new_status, code, t) ==
    LET base == [status |-> new_status, updated_at |-> t] IN
    IF new_status = PICKED_UP
    THEN IF ~Truthy(existing_row.delivery_code)
         THEN base @@ [actual_pickup_time |-> Some(t),
                       delivery_code |-> PyStr(IntStr(code)),
                       delivery_code_used |-> FALSE]
         ELSE base @@ [actual_pickup_time |-> Some(t)]
    ELSE IF new_status = DELIVERED
    THEN base @@ [actual_delivery_time |-> Some(t)]
    ELSE base

\* the response after the update and the re-fetch
UpdateStatusResponse(tbl, id) ==
    IF Select(tbl, id) = <<>>
    THEN HTTPException(500, <<"Failed to update order status">>)
    ELSE OK

\* the handler up to its update call: the select and the checks
UpdateStatusCall(w, id, new_status) ==
    /\ Free(w)
    /\ \E code \in (IF new_status = PICKED_UP THEN codes ELSE {CodeMin}) :
       \* (randint is called on the pickup branch alone)
       LET r == [Idle EXCEPT !.op = "update_status", !.order_id = id,
                             !.new_status = new_status]
           existing_order == Select(orders, id)
           rejected == UpdateStatusCheck(existing_order, new_status)
       IN  req' = [req EXCEPT ![w] =
                    IF rejected # NoResponse
                    THEN Done(r, rejected)
                    ELSE Writing(r, UpdateStatusData(existing_order[1], new_status, code, now))]
    /\ UNCHANGED <<orders, order_ids, codes, couriers, workers, ENABLE_ACTIVE_ORDER_CHECK, deskVars,
                   deliveryVars>>

\* the update call, the re-fetch and the return
UpdateStatusWrite(w) ==
    /\ req[w].pc = "update"
    /\ req[w].op = "update_status"
    /\ orders' = Update(orders, req[w].order_id, req[w].update_data)
    /\ req' = [req EXCEPT ![w] = Done(req[w], UpdateStatusResponse(orders', req[w].order_id))]
    /\ UNCHANGED <<order_ids, codes, couriers, workers, ENABLE_ACTIVE_ORDER_CHECK, deskVars,
                   deliveryVars>>

----------------------------------------------------------------------------
(* assign_delivery_user *)

AssignCheck(existing_order) ==
    IF existing_order = <<>>
    THEN HTTPException(404, <<"Order not found">>)
    ELSE LET order == existing_order[1] IN
         IF order.status \notin {READY, CONFIRMED}
         THEN HTTPException(400,
                <<"Order is not ready for delivery assignment. Current status: ", order.status>>)
         ELSE NoResponse

\* (mutant) a busy check that counts assigned orders alone
ActiveOrders_AssignedOnly(tbl, d) ==
    {o \in DOMAIN tbl :
        /\ tbl[o].delivery_user_id = Some(d)
        /\ tbl[o].status \in {ASSIGNED}}

\* select * from orders where delivery_user_id = d and status in (...)
ActiveOrders(tbl, d) ==
    {o \in DOMAIN tbl :
        /\ tbl[o].delivery_user_id = Some(d)
        /\ tbl[o].status \in {ASSIGNED, PICKED_UP, EN_ROUTE}}

\* (mutant) an assignment that forgets the courier id
AssignData_NoCourier(delivery_user_id, t) ==
    [status |-> ASSIGNED, updated_at |-> t]

AssignData(delivery_user_id, t) ==
    [delivery_user_id |-> Some(delivery_user_id), status |-> ASSIGNED, updated_at |-> t]

AssignResponse(tbl, id) ==
    IF Select(tbl, id) = <<>>
    THEN HTTPException(500, <<"Failed to assign delivery user">>)
    ELSE OK

\* the select and the status check; then the busy check when the toggle is set
AssignCall(w, id, delivery_user_id) ==
    /\ Free(w)
    /\ LET r == [Idle EXCEPT !.op = "assign", !.order_id = id,
                             !.delivery_user_id = delivery_user_id]
           rejected == AssignCheck(Select(orders, id))
       IN req' = [req EXCEPT ![w] =
                    IF rejected # NoResponse
                    THEN Done(r, rejected)
                    ELSE IF ENABLE_ACTIVE_ORDER_CHECK
                    THEN [r EXCEPT !.pc = "active_check"]
                    ELSE Writing(r, AssignData(delivery_user_id, now))]
    /\ UNCHANGED <<orders, order_ids, codes, couriers, workers, ENABLE_ACTIVE_ORDER_CHECK, deskVars,
                   deliveryVars>>

\* the second select: the courier's active orders
AssignActiveCheck(w) ==
    /\ req[w].pc = "active_check"
    /\ req' = [req EXCEPT ![w] =
                 IF ActiveOrders(orders, req[w].delivery_user_id) # {}
                 THEN Done(req[w], HTTPException(400,
                        <<"Driver already has an active delivery. Complete current delivery before accepting new orders.">>))
                 ELSE Writing(req[w], AssignData(req[w].delivery_user_id, now))]
    /\ UNCHANGED <<orders, order_ids, codes, couriers, workers, ENABLE_ACTIVE_ORDER_CHECK, deskVars,
                   deliveryVars>>

\* (mutant) a conditional write: only an unassigned order that is still
\* ready or confirmed takes the courier
AssignWrite_CompareAndSwap(w) ==
    /\ req[w].pc = "update"
    /\ req[w].op = "assign"
    /\ orders' =
          IF /\ req[w].order_id \in DOMAIN orders
             /\ orders[req[w].order_id].delivery_user_id = None
             /\ orders[req[w].order_id].status \in {READY, CONFIRMED}
          THEN Update(orders, req[w].order_id, req[w].update_data)
          ELSE orders
    /\ req' = [req EXCEPT ![w] = Done(req[w], AssignResponse(orders', req[w].order_id))]
    /\ UNCHANGED <<order_ids, codes, couriers, workers, ENABLE_ACTIVE_ORDER_CHECK, deskVars,
                   deliveryVars>>

AssignWrite(w) ==
    /\ req[w].pc = "update"
    /\ req[w].op = "assign"
    /\ orders' = Update(orders, req[w].order_id, req[w].update_data)
    /\ req' = [req EXCEPT ![w] = Done(req[w], AssignResponse(orders', req[w].order_id))]
    /\ UNCHANGED <<order_ids, codes, couriers, workers, ENABLE_ACTIVE_ORDER_CHECK, deskVars,
                   deliveryVars>>

----------------------------------------------------------------------------
(* verify_delivery_code *)

\* the delivery_code values a client may send in the JSON body
Padded(s) == <<" ">> \o s \o <<" ">>
Payloads ==
    {PyNone, PyStr(<<>>), PyInt(CodeMin), PyStr(Padded(IntStr(CodeMin))),
     PyStr(IntStr(CodeMax))}

\* (mutant) a verification that does not look at the order's status
VerifyCheck_NoStatusCheck(code, existing_order) ==
    IF ~Truthy(code)
    THEN HTTPException(400, <<"Missing delivery_code in request body">>)
    ELSE IF existing_order = <<>>
    THEN HTTPException(404, <<"Order not found">>)
    ELSE LET stored_code == existing_order[1].delivery_code
         IN IF ~Truthy(stored_code)
            THEN HTTPException(400, <<"No delivery code set for this order">>)
            ELSE IF Strip(Str(code)) # Strip(Str(stored_code))
            THEN HTTPException(400, <<"Invalid delivery code">>)
            ELSE NoResponse

\* (mutant) a verification that looks at the order's status before the codes
VerifyCheck_StatusFirst(code, existing_order) ==
    IF ~Truthy(code)
    THEN HTTPException(400, <<"Missing delivery_code in request body">>)
    ELSE IF existing_order = <<>>
    THEN HTTPException(404, <<"Order not found">>)
    ELSE LET order_row == existing_order[1]
             stored_code == order_row.delivery_code
             current_status == order_row.status
         IN IF current_status \notin {PICKED_UP, EN_ROUTE}
            THEN HTTPException(400,
                   <<"Invalid transition: cannot mark as delivered from '", current_status, "'">>)
            ELSE IF ~Truthy(stored_code)
            THEN HTTPException(400, <<"No delivery code set for this order">>)
            ELSE IF Strip(Str(code)) # Strip(Str(stored_code))
            THEN HTTPException(400, <<"Invalid delivery code">>)
            ELSE NoResponse

\* the HTTPException the handler raises for the submitted code and the rows
\* it loaded, or NoResponse
VerifyCheck(code, existing_order) ==
    IF ~Truthy(code)
    THEN HTTPException(400, <<"Missing delivery_code in request body">>)
    ELSE IF existing_order = <<>>
    THEN HTTPException(404, <<"Order not found">>)
    ELSE LET order_row == existing_order[1]
             stored_code == order_row.delivery_code
             current_status == order_row.status
         IN IF ~Truthy(stored_code)
            THEN HTTPException(400, <<"No delivery code set for this order">>)
            ELSE IF Strip(Str(code)) # Strip(Str(stored_code))
            THEN HTTPException(400, <<"Invalid delivery code">>)
            ELSE IF current_status \notin {PICKED_UP, EN_ROUTE}
            THEN HTTPException(400,
                   <<"Invalid transition: cannot mark as delivered from '", current_status, "'">>)
            ELSE NoResponse

\* (mutant) a verification that forgets to mark the code used
VerifyData_CodeNotMarkedUsed(t) ==
    [status |-> DELIVERED, actual_delivery_time |-> Some(t), updated_at |-> t]

VerifyData(t) ==
    [status |-> DELIVERED,
     delivery_code_used |-> TRUE,
     actual_delivery_time |-> Some(t),
     updated_at |-> t]

VerifyResponse(tbl, id) ==
    IF Select(tbl, id) = <<>>
    THEN HTTPException(500, <<"Failed to mark order delivered">>)
    ELSE OK

VerifyCall(w, id, code) ==
    /\ Free(w)
    /\ LET r == [Idle EXCEPT !.op = "verify", !.order_id = id, !.payload = code]
           rejected == VerifyCheck(code, Select(orders, id))
       IN req' = [req EXCEPT ![w] =
                    IF rejected # NoResponse
                    THEN Done(r, rejected)
                    ELSE Writing(r, VerifyData(now))]
    /\ UNCHANGED <<orders, order_ids, codes, couriers, workers, ENABLE_ACTIVE_ORDER_CHECK, deskVars,
                   deliveryVars>>

VerifyWrite(w) ==
    /\ req[w].pc = "update"
    /\ req[w].op = "verify"
    /\ orders' = Update(orders, req[w].order_id, req[w].update_data)
    /\ req' = [req EXCEPT ![w] = Done(req[w], VerifyResponse(orders', req[w].order_id))]
    /\ UNCHANGED <<order_ids, codes, couriers, workers, ENABLE_ACTIVE_ORDER_CHECK, deskVars,
                   deliveryVars>>

----------------------------------------------------------------------------
(* cancel_order *)

\* (mutant) a cancel that refuses delivered orders alone
CancelCheck_CancelledAgain(existing_order) ==
    IF existing_order = <<>>
    THEN HTTPException(404, <<"Order not found">>)
    ELSE IF existing_order[1].status \in {DELIVERED}
    THEN HTTPException(400, <<"Cannot cancel order that is already delivered or cancelled">>)
    ELSE NoResponse

CancelCheck(existing_order) ==
    IF existing_order = <<>>
    THEN HTTPException(404, <<"Order not found">>)
    ELSE IF existing_order[1].status \in {DELIVERED, CANCELLED}
    THEN HTTPException(400, <<"Cannot cancel order that is already delivered or cancelled">>)
    ELSE NoResponse

\* (mutant) a cancel that takes the courier off the order
CancelData_ClearsCourier(t) ==
    [status |-> CANCELLED, delivery_user_id |-> None, updated_at |-> t]

CancelData(t) == [status |-> CANCELLED, updated_at |-> t]

\* response.data of the update is the rows it changed
CancelResponse(tbl, id) ==
    IF Select(tbl, id) = <<>>
    THEN HTTPException(500, <<"Failed to cancel order">>)
    ELSE OK

CancelCall(w, id) ==
    /\ Free(w)
    /\ LET r == [Idle EXCEPT !.op = "cancel", !.order_id = id]
           rejected == CancelCheck(Select(orders, id))
       IN req' = [req EXCEPT ![w] =
                    IF rejected # NoResponse
                    THEN Done(r, rejected)
                    ELSE Writing(r, CancelData(now))]
    /\ UNCHANGED <<orders, order_ids, codes, couriers, workers, ENABLE_ACTIVE_ORDER_CHECK, deskVars,
                   deliveryVars>>

\* (mutant) a cancel that removes the row
CancelWrite_DeletesRow(w) ==
    /\ req[w].pc = "update"
    /\ req[w].op = "cancel"
    /\ orders' = [o \in DOMAIN orders \ {req[w].order_id} |-> orders[o]]
    /\ req' = [req EXCEPT ![w] = Done(req[w], OK)]
    /\ UNCHANGED <<order_ids, codes, couriers, workers, ENABLE_ACTIVE_ORDER_CHECK, deskVars,
                   deliveryVars>>

CancelWrite(w) ==
    /\ req[w].pc = "update"
    /\ req[w].op = "cancel"
    /\ orders' = Update(orders, req[w].order_id, req[w].update_data)
    /\ req' = [req EXCEPT ![w] = Done(req[w], CancelResponse(orders', req[w].order_id))]
    /\ UNCHANGED <<order_ids, codes, couriers, workers, ENABLE_ACTIVE_ORDER_CHECK, deskVars,
                   deliveryVars>>

----------------------------------------------------------------------------
(* get_order_by_id and list_orders *)

\* an item of the fetched row with its subtotal coerced:
\* it["subtotal"] = float(it.get("subtotal", 0) or 0), 0.0 when that raises;
\* what is no dict and cannot be made one is replaced by {}
NormalizedItem(it) ==
    LET d == IF IsDict(it) THEN it ELSE NoData
    IN  [k \in DOMAIN d \cup {"subtotal"} |->
            IF k = "subtotal"
            THEN PyFloat(Or(IF Truthy(Get(d, "subtotal", PyInt(0)))
                            THEN Float(Get(d, "subtotal", PyInt(0)))
                            ELSE Some(0), 0))
            ELSE d[k]]

\* the row with its items normalized and its subtotal overwritten by the
\* rounded sum of the items' subtotals (a row without order_items has the
\* empty list)
NormalizedOrder(row) ==
    LET oi == Get(row, "order_items", <<>>)
        normalized_items == [i \in DOMAIN oi |-> NormalizedItem(oi[i])]
        calculated == Sum([i \in DOMAIN normalized_items |-> normalized_items[i].subtotal.int])
    IN  [k \in DOMAIN row \cup {"order_items", "subtotal"} |->
            CASE k = "order_items" -> normalized_items
              [] k = "subtotal" -> PyFloat(Round2(calculated))
              [] OTHER -> row[k]]

\* the numbers pydantic reads from a record, None where a field does not
\* hold a number
ItemFields(it) ==
    [price |-> Float(Get(it, "price", PyNone)),
     quantity |-> Float(Get(it, "quantity", PyNone)),
     subtotal |-> Float(Get(it, "subtotal", PyNone))]

\* Order(**norm): TRUE when the record passes the validation of the model
ValidateOrderRecord(norm) ==
    LET items == [i \in DOMAIN norm.order_items |-> ItemFields(norm.order_items[i])]
        amount(k, default) == Float(Get(norm, k, default))
    IN  /\ \A i \in DOMAIN items :
              /\ items[i].price # None
              /\ items[i].quantity # None
              /\ items[i].subtotal # None
              /\ items[i].quantity[1] % 1000 = 0
        /\ amount("subtotal", PyNone) # None
        /\ amount("tax_amount", PyInt(0)) # None
        /\ amount("delivery_fee", PyInt(0)) # None
        /\ amount("tip_amount", PyInt(0)) # None
        /\ amount("discount_amount", PyInt(0)) # None
        /\ amount("total_amount", PyNone) # None
        /\ ValidateOrderCreate(
              [order_items |-> [i \in DOMAIN items |->
                                  [price |-> items[i].price[1],
                                   quantity |-> items[i].quantity[1] \div 1000,
                                   subtotal |-> items[i].subtotal[1]]],
               subtotal |-> amount("subtotal", PyNone)[1],
               tax_amount |-> amount("tax_amount", PyInt(0))[1],
               delivery_fee |-> amount("delivery_fee", PyInt(0))[1],
               tip_amount |-> amount("tip_amount", PyInt(0))[1],
               discount_amount |-> amount("discount_amount", PyInt(0))[1],
               total_amount |-> amount("total_amount", PyNone)[1]])

\* the rows of the users table for the placing user: none, one with
\* coordinates, one without
UserRows ==
    {<<>>,
     <<[latitude |-> PyFloat(32000), longitude |-> PyFloat(92000)]>>,
     <<[latitude |-> PyNone, longitude |-> PyNone]>>}

\* the last-resort delivery_address; the address built from the user's row
\* is the same, the select of the row naming latitude and longitude alone
Placeholder ==
    [street |-> "Unknown", city |-> "Unknown", state |-> "Unknown", zip_code |-> "00000",
     instructions |-> PyNone]

\* the coordinate of the user's row is copied: the order has none and the
\* user has one
Copies(order_row, user_row, k) == ~Truthy(Get(order_row, k, PyNone)) /\ Truthy(user_row[k])

\* the copy of the fetched row with the user's coordinates where the order
\* has none; a coordinate float() raises on ends the copying
WithUserCoordinates(order_row, user_row) ==
    IF Copies(order_row, user_row, "latitude") /\ Float(user_row.latitude) = None
    THEN order_row
    ELSE LET with_lat == IF Copies(order_row, user_row, "latitude")
                         THEN SetItem(order_row, "latitude", PyFloat(Float(user_row.latitude)[1]))
                         ELSE order_row
         IN  IF Copies(order_row, user_row, "longitude") /\ Float(user_row.longitude) # None
             THEN SetItem(with_lat, "longitude", PyFloat(Float(user_row.longitude)[1]))
             ELSE with_lat

\* _ensure_delivery_address(order_row, supabase), on the copy of the row the
\* select returned; udata is what the users table holds for the order's user
EnsureDeliveryAddress(order_row, udata) ==
    IF Truthy(Get(order_row, "delivery_address", PyNone))
    THEN order_row
    ELSE IF Truthy(Get(order_row, "user_id", PyNone)) /\ udata # <<>>
    THEN WithUserCoordinates(SetItem(order_row, "delivery_address", Placeholder), udata[1])
    ELSE SetItem(order_row, "delivery_address", Placeholder)

\* the answer of get_order_by_id for the rows the select returned
GetOrderResponse(existing, udata) ==
    IF existing = <<>>
    THEN Reply("get", 404, <<>>)
    ELSE LET norm == NormalizedOrder(EnsureDeliveryAddress(existing[1], udata))
         IN  IF ValidateOrderRecord(norm)
             THEN Reply("get", 200, <<norm>>)
             ELSE Reply("get", 500, <<>>)

\* (mutant) a get_order_by_id that saves what it filled in
GetOrder_SavesTheCopy(id) ==
    /\ \E udata \in UserRows : resp' = GetOrderResponse(Select(orders, id), udata)
    /\ orders' = IF resp'.status_code = 200 THEN [orders EXCEPT ![id] = resp'.body[1]] ELSE orders
    /\ UNCHANGED <<req, order_ids, codes, couriers, workers, ENABLE_ACTIVE_ORDER_CHECK,
                   order_inputs, record, counts, passes, cent_over, lockVars, deliveryVars>>

GetOrder(id) ==
    /\ \E udata \in UserRows : resp' = GetOrderResponse(Select(orders, id), udata)
    /\ UNCHANGED <<orders, req, order_ids, codes, couriers, workers, ENABLE_ACTIVE_ORDER_CHECK,
                   order_inputs, record, counts, passes, cent_over, lockVars, deliveryVars>>

RECURSIVE Rows(_, _)
\* the rows of the table as a list (their order by created_at is not modelled)
Rows(tbl, ids) ==
    IF ids = {} THEN <<>>
    ELSE LET id == CHOOSE o \in ids : TRUE
         IN  <<tbl[id]>> \o Rows(tbl, ids \ {id})

\* list_orders returns response.data as the store holds it
ListOrders ==
    /\ resp' = Reply("list", 200, Rows(orders, DOMAIN orders))
    /\ UNCHANGED <<orders, req, order_ids, codes, couriers, workers, ENABLE_ACTIVE_ORDER_CHECK,
                   order_inputs, record, counts, passes, cent_over, lockVars, deliveryVars>>

RECURSIVE Ensured(_, _, _)
\* the rows a list handler builds from the rows its select returned: each
\* after _ensure_delivery_address, users giving what the users table holds for
\* the row's user
Ensured(tbl, ids, users) ==
    IF ids = {} THEN <<>>
    ELSE LET id == CHOOSE o \in ids : TRUE
         IN  <<EnsureDeliveryAddress(tbl[id], users[id])>> \o Ensured(tbl, ids \ {id}, users)

\* the answer of a list handler: [] for an empty select, the rows as Order
\* models, 500 when a row is no Order
GetOrdersResponse(selected) ==
    IF selected = <<>> THEN Reply("orders_by", 200, <<>>)
    ELSE IF \A i \in DOMAIN selected : ValidateOrderRecord(selected[i])
    THEN Reply("orders_by", 200, selected)
    ELSE Reply("orders_by", 500, <<>>)

\* get_user_orders, get_restaurant_orders and get_delivery_user_orders: the
\* select of the rows whose column holds the value of the path, then the
\* same loop
GetOrdersBy(column, value, users) ==
    /\ resp' = GetOrdersResponse(
                   Ensured(orders, {id \in DOMAIN orders : orders[id][column] = value}, users))
    /\ UNCHANGED <<orders, req, order_ids, codes, couriers, workers, ENABLE_ACTIVE_ORDER_CHECK,
                   order_inputs, record, counts, passes, cent_over, lockVars, deliveryVars>>

----------------------------------------------------------------------------
(* The financial sanitizer *)

\* _safe_float(val, default)
SafeFloat(val, default) ==
    IF val = PyNone THEN default
    ELSE IF Float(val) = None THEN default
    ELSE Float(val)

\* _compute_item_subtotal(it)
ComputeItemSubtotal(it) ==
    IF it = PyNone \/ DOMAIN it = {} \/ (~IsDict(it) /\ ~Truthy(it))
    THEN 0
    ELSE IF IsDict(it) /\ "subtotal" \in DOMAIN it
    THEN Or(SafeFloat(it.subtotal, Some(0)), 0)
    ELSE LET d == IF IsDict(it) THEN it ELSE NoData
             price == Or(SafeFloat(Get(d, "price", PyInt(0)), Some(0)), 0)
             qty == Or(SafeFloat(Get(d, "quantity", PyInt(1)), Some(1000)), 1000)
         IN  Mul(price, qty)

\* _compute_subtotal(items)
ComputeSubtotal(items) == Sum([i \in DOMAIN items |-> ComputeItemSubtotal(items[i])])

\* _compute_and_update_subtotal(order): the order afterwards and whether the
\* subtotal was overwritten
ComputeAndUpdateSubtotal(order) ==
    LET items == Get(order, "order_items", <<>>)
        computed_sub == ComputeSubtotal(items)
        stored_sub_val == SafeFloat(Get(order, "subtotal", PyNone), None)
    IN  IF stored_sub_val = None \/ Exceeds(stored_sub_val[1], computed_sub)
        THEN [order |-> SetItem(order, "subtotal", PyFloat(Round2(computed_sub))),
              changed |-> TRUE]
        ELSE [order |-> order, changed |-> FALSE]

\* _recompute_total(o): whether the total differs, and the computed total;
\* raised is TRUE when the stored subtotal is no number and the sum raises
RecomputeTotal(o) ==
    LET tax == Or(SafeFloat(Get(o, "tax_amount", PyNone), Some(0)), 0)
        delivery_fee == Or(SafeFloat(Get(o, "delivery_fee", PyNone), Some(0)), 0)
        tip == Or(SafeFloat(Get(o, "tip_amount", PyNone), Some(0)), 0)
        discount == Or(SafeFloat(Get(o, "discount_amount", PyNone), Some(0)), 0)
        subtotal == Number(Get(o, "subtotal", PyInt(0)))
        stored_total_val == SafeFloat(Get(o, "total_amount", PyNone), None)
    IN  IF subtotal = None
        THEN [raised |-> TRUE, changed |-> FALSE, computed_total |-> 0]
        ELSE LET computed_total == Round2(subtotal[1] + tax + delivery_fee + tip - discount)
             IN  [raised |-> FALSE,
                  changed |-> stored_total_val = None
                              \/ Exceeds(stored_total_val[1], computed_total),
                  computed_total |-> computed_total]

\* (mutant) a total step that zeroes the total when _recompute_total raises
UpdateTotal_ZeroOnRaise(order, r) ==
    IF r.raised \/ r.changed
    THEN [order |-> SetItem(order, "total_amount",
                            PyFloat(IF r.raised THEN 0 ELSE r.computed_total)),
          changed |-> TRUE]
    ELSE [order |-> order, changed |-> FALSE]

\* what _compute_and_update_total does with the answer r of _recompute_total
UpdateTotal(order, r) ==
    IF ~r.raised /\ r.changed
    THEN [order |-> SetItem(order, "total_amount", PyFloat(r.computed_total)),
          changed |-> TRUE]
    ELSE [order |-> order, changed |-> FALSE]

\* _compute_and_update_total(order): the order afterwards and whether the
\* total was overwritten
ComputeAndUpdateTotal(order) == UpdateTotal(order, RecomputeTotal(order))

\* the record after both steps, s and t, and the two flags
Sanitized(s, t) ==
    [order |-> t.order, subtotal_changed |-> s.changed, total_changed |-> t.changed]

\* (mutant) a total step that reads the subtotal of the record as it came,
\* before the subtotal was corrected
SanitizeTotal_FromStoredSubtotal(order, s) ==
    [order |-> IF ComputeAndUpdateTotal(order).changed
               THEN SetItem(s.order, "total_amount", ComputeAndUpdateTotal(order).order.total_amount)
               ELSE s.order,
     subtotal_changed |-> s.changed,
     total_changed |-> ComputeAndUpdateTotal(order).changed]

\* the total step, on the order the subtotal step s left
SanitizeTotal(order, s) == Sanitized(s, ComputeAndUpdateTotal(s.order))

\* _sanitize_order_record(order): the record afterwards and the two flags
SanitizeOrderRecord(order) == SanitizeTotal(order, ComputeAndUpdateSubtotal(order))

\* _sanitization_counts at import
NoCounts == [records_sanitized |-> 0, subtotal_corrections |-> 0, total_corrections |-> 0]

\* _sanitization_lock when no thread holds it
Unlocked == ""

\* the counters after a pass with these flags
Counted(c, subtotal_changed, total_changed) ==
    IF subtotal_changed \/ total_changed
    THEN [records_sanitized |-> c.records_sanitized + 1,
          subtotal_corrections |-> c.subtotal_corrections + (IF subtotal_changed THEN 1 ELSE 0),
          total_corrections |-> c.total_corrections + (IF total_changed THEN 1 ELSE 0)]
    ELSE c

\* the record and the counters after a pass that returned r
Returned(r) ==
    /\ record' = r.order
    /\ counts' = Counted(counts, r.subtotal_changed, r.total_changed)

\* one call of _sanitize_order_record on the record
Sanitize ==
    /\ passes < MaxPasses
    /\ Returned(SanitizeOrderRecord(record))
    /\ passes' = passes + 1
    /\ UNCHANGED <<orders, req, order_ids, codes, couriers, workers, ENABLE_ACTIVE_ORDER_CHECK,
                   order_inputs, resp, cent_over, lockVars, deliveryVars>>

----------------------------------------------------------------------------
(* The counters under threads: every thread sanitizes a record of its own;
   the counters are the one thing the threads share.  A += on an entry of
   the dict is a load and a store *)

\* (mutant) a lock that every thread may take at any time
LockFree_Always(lock) == TRUE

\* the lock can be taken
LockFree(lock) == lock = Unlocked

\* the entries the block under the lock increments, in its order
Increments(subtotal_changed, total_changed) ==
    <<"records_sanitized">>
    \o (IF subtotal_changed THEN <<"subtotal_corrections">> ELSE <<>>)
    \o (IF total_changed THEN <<"total_corrections">> ELSE <<>>)

\* the thread's position after both steps returned r: at the lock when a
\* flag is set, back from the call otherwise
AfterSteps(w, r) ==
    IF r.subtotal_changed \/ r.total_changed
    THEN /\ req' = [req EXCEPT ![w] =
                      [pc |-> "acquire", loaded |-> 0,
                       todo |-> Increments(r.subtotal_changed, r.total_changed)]]
         /\ made' = Counted(made, r.subtotal_changed, r.total_changed)
    ELSE UNCHANGED <<req, made>>

\* a thread calls _sanitize_order_record(order): the two steps
SanitizeSteps(w, order) ==
    /\ Free(w)
    /\ passes < MaxPasses
    /\ passes' = passes + 1
    /\ AfterSteps(w, SanitizeOrderRecord(order))
    /\ UNCHANGED <<orders, order_ids, codes, couriers, workers, ENABLE_ACTIVE_ORDER_CHECK,
                   order_inputs, resp, record, counts, cent_over, sanitization_lock,
                   deliveryVars>>

\* with _sanitization_lock: the thread waits until it can take the lock
Acquire(w) ==
    /\ req[w].pc = "acquire"
    /\ LockFree(sanitization_lock)
    /\ sanitization_lock' = w
    /\ req' = [req EXCEPT ![w].pc = "load"]
    /\ UNCHANGED <<orders, order_ids, codes, couriers, workers, ENABLE_ACTIVE_ORDER_CHECK,
                   order_inputs, resp, record, counts, passes, cent_over, made, deliveryVars>>

\* _sanitization_counts[k] += 1: the entry is read
Load(w) ==
    /\ req[w].pc = "load"
    /\ req' = [req EXCEPT ![w].pc = "store", ![w].loaded = counts[Head(req[w].todo)]]
    /\ UNCHANGED <<orders, order_ids, codes, couriers, workers, ENABLE_ACTIVE_ORDER_CHECK,
                   order_inputs, resp, record, counts, passes, cent_over, lockVars,
                   deliveryVars>>

\* _sanitization_counts[k] += 1: the entry is written
Store(w) ==
    /\ req[w].pc = "store"
    /\ counts' = [counts EXCEPT ![Head(req[w].todo)] = req[w].loaded + 1]
    /\ req' = [req EXCEPT ![w].pc = IF Tail(req[w].todo) = <<>> THEN "release" ELSE "load",
                          ![w].todo = Tail(req[w].todo)]
    /\ UNCHANGED <<orders, order_ids, codes, couriers, workers, ENABLE_ACTIVE_ORDER_CHECK,
                   order_inputs, resp, record, passes, cent_over, lockVars, deliveryVars>>

\* the with block is left and the order is returned
Release(w) ==
    /\ req[w].pc = "release"
    /\ sanitization_lock' = Unlocked
    /\ req' = [req EXCEPT ![w] = Idle]
    /\ UNCHANGED <<orders, order_ids, codes, couriers, workers, ENABLE_ACTIVE_ORDER_CHECK,
                   order_inputs, resp, record, counts, passes, cent_over, made, deliveryVars>>

\* sanitization_metrics(): a copy of the counters, taken under the lock
SanitizationMetrics ==
    /\ LockFree(sanitization_lock)
    /\ resp' = Reply("metrics", 200, <<counts>>)
    /\ UNCHANGED <<orders, req, order_ids, codes, couriers, workers, ENABLE_ACTIVE_ORDER_CHECK,
                   order_inputs, record, counts, passes, cent_over, lockVars, deliveryVars>>

----------------------------------------------------------------------------
(* routes/delivery_routes.py: fetch_ready_orders *)

\* a pair of parsed coordinates, or None when one of them is missing
Pair(lat, lng) ==
    IF lat # None /\ lng # None THEN Some([lat |-> lat[1], lng |-> lng[1]]) ELSE None

\* (mutant) coordinates that do not parse taken as 0.0
ReadyCoords_ZeroOnError(o) ==
    IF o.restaurants.latitude # PyNone /\ o.restaurants.longitude # PyNone
    THEN Pair(Some(Or(Float(o.restaurants.latitude), 0)),
              Some(Or(Float(o.restaurants.longitude), 0)))
    ELSE None

\* the coordinates of the order's restaurant as the loop over the orders
\* parses them: a pair of floats, or None when one is None or float() raises
ReadyCoords(o) ==
    IF o.restaurants.latitude # PyNone /\ o.restaurants.longitude # PyNone
    THEN Pair(Float(o.restaurants.latitude), Float(o.restaurants.longitude))
    ELSE None

RECURSIVE RestaurantIds(_)
\* restaurant_ids: the restaurant ids of the orders, each once, in the
\* order of their first appearance
RestaurantIds(os) ==
    IF os = <<>> THEN <<>>
    ELSE LET before == RestaurantIds(SubSeq(os, 1, Len(os) - 1))
             rid == os[Len(os)].restaurant_id
         IN  IF \E i \in DOMAIN before : before[i] = rid
             THEN before
             ELSE Append(before, rid)

\* restaurant_coords_by_id, given what every order's coordinates parse to:
\* the coordinates of the last order of the restaurant that has some
CoordsById(os, parsed) ==
    [rid \in {os[i].restaurant_id : i \in {j \in DOMAIN os : parsed[j] # None}} |->
        parsed[CHOOSE i \in DOMAIN os :
                  /\ os[i].restaurant_id = rid
                  /\ parsed[i] # None
                  /\ \A j \in DOMAIN os :
                        (os[j].restaurant_id = rid /\ parsed[j] # None) => j <= i][1]]

\* restaurant_coords_by_id
RestaurantCoordsById(os) == CoordsById(os, [i \in DOMAIN os |-> ReadyCoords(os[i])])

\* the destinations of the restaurants rids
DestList(rids, coords) ==
    [i \in DOMAIN rids |->
        [restaurant_id |-> rids[i], lat |-> coords[rids[i]].lat, lng |-> coords[rids[i]].lng]]

\* dests of the restaurant ids, the restaurants without coordinates
\* filtered out
DestsOf(restaurant_ids, coords) ==
    DestList(SelectSeq(restaurant_ids, LAMBDA rid : rid \in DOMAIN coords), coords)

\* dests
Dests(os) == DestsOf(RestaurantIds(os), RestaurantCoordsById(os))

\* chunks: dests[i:i + size] for i in range(0, len(dests), size)
Chunks(dests, size) ==
    [c \in 1..((Len(dests) + size - 1) \div size) |->
        SubSeq(dests, (c - 1) * size + 1,
               IF c * size < Len(dests) THEN c * size ELSE Len(dests))]

\* the road from the source to a destination as the provider measures it:
\* metres and seconds
RoadDistance(source, c) == (Abs(c.lat - source.lat) + Abs(c.lng - source.lng)) \div 10
RoadDuration(source, c) == 2 * RoadDistance(source, c)

\* the JSON the matrix endpoint answers for a chunk: one row of distances
\* and one of durations, null for the destinations no road reaches
MatrixJson(source, chunk, unreachable) ==
    [distances |-> <<[i \in DOMAIN chunk |->
                        IF chunk[i].restaurant_id \in unreachable THEN PyNone
                        ELSE PyInt(RoadDistance(source, chunk[i]))]>>,
     durations |-> <<[i \in DOMAIN chunk |->
                        IF chunk[i].restaurant_id \in unreachable THEN PyNone
                        ELSE PyInt(RoadDuration(source, chunk[i]))]>>]

\* _fetch_matrix_for_chunk(chunk): the request, and the JSON of the answer
\* or {} after an HTTP error
FetchMatrixForChunk(source, chunk, unreachable, http_error) ==
    [kind |-> "matrix",
     coordinates |-> <<[lng |-> source.lng, lat |-> source.lat]>>
                     \o [i \in DOMAIN chunk |-> [lng |-> chunk[i].lng, lat |-> chunk[i].lat]],
     answer |-> IF http_error THEN NoData ELSE MatrixJson(source, chunk, unreachable)]

\* the requests of asyncio.gather over the chunks, in the order of the chunks
MatrixCalls(chunks, source, unreachable, failed) ==
    [c \in DOMAIN chunks |-> FetchMatrixForChunk(source, chunks[c], unreachable, c \in failed)]

\* distances_from_source / durations_from_source of a chunk's answer
FromSource(chunk_result, key, chunk) ==
    IF key \in DOMAIN chunk_result /\ chunk_result[key] # <<>>
    THEN chunk_result[key][1]
    ELSE [i \in DOMAIN chunk |-> PyNone]

\* (mutant) a null of the provider read as the number 0
FloatOrNone_ZeroForNull(val) == IF val = PyNone THEN PyFloat(0) ELSE PyFloat(Float(val)[1])

\* float(val) if val is not None else None
FloatOrNone(val) == IF val = PyNone THEN PyNone ELSE PyFloat(Float(val)[1])

\* (mutant) a merge that reads every chunk's answer at the destination's
\* place in the whole list
ByRestaurant_GlobalIndex(chunks, results, key) ==
    [rid \in UNION {{chunks[c][i].restaurant_id : i \in DOMAIN chunks[c]} : c \in DOMAIN chunks} |->
        LET c == CHOOSE d \in DOMAIN chunks : \E i \in DOMAIN chunks[d] : chunks[d][i].restaurant_id = rid
            i == CHOOSE j \in DOMAIN chunks[c] : chunks[c][j].restaurant_id = rid
            row == FromSource(results[c].answer, key, chunks[c])
            g == (c - 1) * Len(chunks[1]) + i
        IN  IF g \in DOMAIN row THEN FloatOrNone(row[g]) ELSE PyNone]

\* (mutant) a merge that gives up every chunk's answer when one request
\* failed
ByRestaurant_NothingAfterFailure(chunks, results, key) ==
    [rid \in UNION {{chunks[c][i].restaurant_id : i \in DOMAIN chunks[c]} : c \in DOMAIN chunks} |->
        LET c == CHOOSE d \in DOMAIN chunks : \E i \in DOMAIN chunks[d] : chunks[d][i].restaurant_id = rid
            i == CHOOSE j \in DOMAIN chunks[c] : chunks[c][j].restaurant_id = rid
            row == FromSource(results[c].answer, key, chunks[c])
        IN  IF (\E d \in DOMAIN results : results[d].answer = NoData) \/ i \notin DOMAIN row
            THEN PyNone
            ELSE FloatOrNone(row[i])]

\* distance_by_restaurant / duration_by_restaurant: the zip of every chunk
\* with its row of the answer
ByRestaurant(chunks, results, key) ==
    [rid \in UNION {{chunks[c][i].restaurant_id : i \in DOMAIN chunks[c]} : c \in DOMAIN chunks} |->
        LET c == CHOOSE d \in DOMAIN chunks : \E i \in DOMAIN chunks[d] : chunks[d][i].restaurant_id = rid
            i == CHOOSE j \in DOMAIN chunks[c] : chunks[c][j].restaurant_id = rid
            row == FromSource(results[c].answer, key, chunks[c])
        IN  IF i \in DOMAIN row THEN FloatOrNone(row[i]) ELSE PyNone]

\* round(a / b, n) on the scaled integers, halves away from zero
RoundDiv(a, b) == (2 * a + b) \div (2 * b)

\* round(dist_m / 1609.34, 3)
Miles(dist_m) == PyFloat(RoundDiv(dist_m.int * 100, 160934))

\* round(dur_s / 60.0, 1)
Minutes(dur_s) == PyFloat(100 * RoundDiv(dur_s.int, 6000))

\* o_enriched: the order with the five annotations
Enriched(o, dist_m, dur_s) ==
    [order_id |-> o.order_id,
     restaurant_id |-> o.restaurant_id,
     restaurants |-> o.restaurants,
     distance_to_restaurant |-> dist_m,
     duration_to_restaurant |-> dur_s,
     distance_to_restaurant_miles |-> IF dist_m # PyNone THEN Miles(dist_m) ELSE PyNone,
     restaurant_reachable_by_road |-> dist_m # PyNone,
     duration_to_restaurant_minutes |-> IF dur_s # PyNone THEN Minutes(dur_s) ELSE PyNone]

\* (mutant) a listing of the orders whose restaurant is in the maps only
EnrichedOrders_InTheMapsOnly(os, distance_by_restaurant, duration_by_restaurant) ==
    LET kept == SelectSeq(os, LAMBDA o : o.restaurant_id \in DOMAIN distance_by_restaurant)
    IN  [i \in DOMAIN kept |->
            Enriched(kept[i],
                     Get(distance_by_restaurant, kept[i].restaurant_id, PyNone),
                     Get(duration_by_restaurant, kept[i].restaurant_id, PyNone))]

\* enriched_orders: every order with the entries of its restaurant in the
\* two maps, None for a restaurant they do not hold
EnrichedOrders(os, distance_by_restaurant, duration_by_restaurant) ==
    [i \in DOMAIN os |->
        Enriched(os[i],
                 Get(distance_by_restaurant, os[i].restaurant_id, PyNone),
                 Get(duration_by_restaurant, os[i].restaurant_id, PyNone))]

\* the listing, given the chunks and the provider's answers to them
ReadyListing(os, chunks, results) ==
    EnrichedOrders(os, ByRestaurant(chunks, results, "distances"),
                   ByRestaurant(chunks, results, "durations"))

\* the answers are gathered and the listing is returned
Gathered(os, chunks, results) ==
    /\ calls' = results
    /\ resp' = Reply("ready", 200, ReadyListing(os, chunks, results))

\* the chunks are sent to the provider
Fetched(os, chunks, source, unreachable, failed) ==
    Gathered(os, chunks, MatrixCalls(chunks, source, unreachable, failed))

\* fetch_ready_orders(source): the ready orders are selected, one matrix
\* request goes out per chunk of resolved restaurants, and the orders are
\* returned with the distance and duration of their restaurant.  The
\* provider reaches no road for the restaurants in unreachable and answers
\* the chunks in failed with an HTTP error.
FetchReadyOrders(source, unreachable, failed) ==
    /\ Fetched(rows, Chunks(Dests(rows), MAX_DEST_PER_MATRIX), source, unreachable, failed)
    /\ UNCHANGED <<lifecycleVars, order_inputs, record, counts, passes, cent_over, lockVars,
                   rows, MAX_DEST_PER_MATRIX>>

----------------------------------------------------------------------------
(* routes/delivery_routes.py: get_navigation_route *)

\* the coordinates the route parses from two stored values: None when one
\* is None or "", or when float() raises
ParseCoordinates(lat_raw, lng_raw) ==
    IF lat_raw # PyNone /\ lng_raw # PyNone /\ lat_raw # PyStr(<<>>) /\ lng_raw # PyStr(<<>>)
    THEN Pair(Float(lat_raw), Float(lng_raw))
    ELSE None

\* where the geocoder puts an address it finds
Place(address) ==
    IF address = PyStr(<<"r">>) THEN [lat |-> 21000, lng |-> 81000]
    ELSE [lat |-> 31000, lng |-> 91000]

\* geocode_address(address): the place, or (None, None) when the address is
\* empty or no str, the provider fails or it finds nothing
GeocodeAddress(address, found) ==
    IF ~Truthy(address) \/ address.type # "str" THEN None
    ELSE IF found THEN Some(Place(address))
    ELSE None

\* a call of geocode_address and what it returned
GeocodeCall(who, address, found) ==
    [kind |-> "geocode", who |-> who, address |-> address,
     answer |-> GeocodeAddress(address, found)]

\* the locals after the stored coordinates are parsed: no call made yet
Parsed(order) ==
    [calls |-> <<>>,
     restaurant |-> ParseCoordinates(order.restaurants.latitude, order.restaurants.longitude),
     customer |-> ParseCoordinates(order.latitude, order.longitude)]

\* lat, lng = await geocode_address(...): the coordinates afterwards
Resolved(coordinates, answer) == IF answer # None THEN answer ELSE coordinates

\* the restaurant's address is geocoded when its coordinates are missing
RestaurantGeocode(order, env, ctx) ==
    IF ctx.restaurant = None /\ Truthy(order.restaurants.address)
    THEN [calls |-> Append(ctx.calls, GeocodeCall("restaurant", order.restaurants.address, env.first)),
          restaurant |-> Resolved(ctx.restaurant, GeocodeAddress(order.restaurants.address, env.first)),
          customer |-> ctx.customer]
    ELSE ctx

\* (mutant) a customer chain that geocodes the address though the order has
\* coordinates of its own
CustomerGeocode_Always(order, env, ctx) ==
    IF Truthy(order.delivery_address)
    THEN [calls |-> Append(ctx.calls, GeocodeCall("customer", order.delivery_address, env.customer)),
          restaurant |-> ctx.restaurant,
          customer |-> Resolved(ctx.customer, GeocodeAddress(order.delivery_address, env.customer))]
    ELSE ctx

\* the delivery address is geocoded when the customer's coordinates are
\* missing and there is an address
CustomerGeocode(order, env, ctx) ==
    IF ctx.customer = None /\ Truthy(order.delivery_address)
    THEN [calls |-> Append(ctx.calls, GeocodeCall("customer", order.delivery_address, env.customer)),
          restaurant |-> ctx.restaurant,
          customer |-> Resolved(ctx.customer, GeocodeAddress(order.delivery_address, env.customer))]
    ELSE ctx

\* the coordinates of the user's row, when there is a row and they parse
ProfileCoordinates(coordinates, udata) ==
    IF udata = <<>> THEN coordinates
    ELSE IF ParseCoordinates(udata[1].latitude, udata[1].longitude) # None
    THEN ParseCoordinates(udata[1].latitude, udata[1].longitude)
    ELSE coordinates

\* (mutant) a profile fallback that is also taken when the address was
\* geocoded in vain
ProfileFallback_AfterFailedGeocode(order, env, ctx) ==
    IF ctx.customer = None /\ Truthy(order.user_id)
    THEN [calls |-> Append(ctx.calls, [kind |-> "users", user_id |-> order.user_id,
                                       answer |-> env.users]),
          restaurant |-> ctx.restaurant,
          customer |-> ProfileCoordinates(ctx.customer, env.users)]
    ELSE ctx

\* the saved coordinates of the user are read when the customer's are still
\* missing and the order has no delivery address
ProfileFallback(order, env, ctx) ==
    IF ctx.customer = None /\ ~Truthy(order.delivery_address) /\ Truthy(order.user_id)
    THEN [calls |-> Append(ctx.calls, [kind |-> "users", user_id |-> order.user_id,
                                       answer |-> env.users]),
          restaurant |-> ctx.restaurant,
          customer |-> ProfileCoordinates(ctx.customer, env.users)]
    ELSE ctx

\* the restaurant's address is geocoded once more when its coordinates are
\* still missing
RestaurantRetry(order, env, ctx) ==
    IF ctx.restaurant = None /\ Truthy(order.restaurants.address)
    THEN [calls |-> Append(ctx.calls, GeocodeCall("restaurant", order.restaurants.address, env.second)),
          restaurant |-> Resolved(ctx.restaurant, GeocodeAddress(order.restaurants.address, env.second)),
          customer |-> ctx.customer]
    ELSE ctx

\* the resolution of both locations, in the order of the route's code
Locations(order, env) ==
    RestaurantRetry(order, env,
        ProfileFallback(order, env,
            CustomerGeocode(order, env,
                RestaurantGeocode(order, env, Parsed(order)))))

\* what a request answers: the calls it made, a status code and a body
Answer(ctx_calls, status_code, body) ==
    [calls |-> ctx_calls, status_code |-> status_code, body |-> body]

Detail(text) == [detail |-> text]

\* f"Order status '{order_status}' does not require navigation"
NotApplicable(order_status) ==
    [detail |-> "Order status does not require navigation", order_status |-> order_status]

\* the request to the directions endpoint and its outcome
DirectionsCall(start, end, outcome) ==
    [kind |-> "directions", origin |-> start, destination |-> end, answer |-> outcome]

\* the route is fetched and returned
FetchRoute(ctx, route_type, start, end, outcome) ==
    Answer(Append(ctx.calls, DirectionsCall(start, end, outcome)),
           CASE outcome = "http_error" -> 500
             [] outcome = "no_routes" -> 404
             [] OTHER -> 200,
           CASE outcome = "http_error" -> Detail("Failed to fetch navigation")
             [] outcome = "no_routes" -> Detail("No route found")
             [] OTHER -> [route_type |-> route_type, origin |-> start, destination |-> end])

\* (mutant) a to_customer leg that starts at the driver
RouteFor_CustomerLegFromDriver(order_status, driver, ctx, outcome) ==
    IF order_status = ASSIGNED
    THEN FetchRoute(ctx, "to_restaurant", driver, ctx.restaurant[1], outcome)
    ELSE IF order_status \in {PICKED_UP, EN_ROUTE}
    THEN IF ctx.customer = None
         THEN Answer(ctx.calls, 400, Detail("Customer location not geocoded"))
         ELSE FetchRoute(ctx, "to_customer", driver, ctx.customer[1], outcome)
    ELSE Answer(ctx.calls, 400, NotApplicable(order_status))

\* the endpoints by the status of the order, once the restaurant is located
RouteFor(order_status, driver, ctx, outcome) ==
    IF order_status = ASSIGNED
    THEN FetchRoute(ctx, "to_restaurant", driver, ctx.restaurant[1], outcome)
    ELSE IF order_status \in {PICKED_UP, EN_ROUTE}
    THEN IF ctx.customer = None
         THEN Answer(ctx.calls, 400, Detail("Customer location not geocoded"))
         ELSE FetchRoute(ctx, "to_customer", ctx.restaurant[1], ctx.customer[1], outcome)
    ELSE Answer(ctx.calls, 400, NotApplicable(order_status))

\* (mutant) a route that looks at the status before the restaurant
Routed_StatusFirst(order, driver, env, ctx) ==
    IF order.status \notin {ASSIGNED, PICKED_UP, EN_ROUTE}
    THEN Answer(ctx.calls, 400, NotApplicable(order.status))
    ELSE IF ctx.restaurant = None
    THEN Answer(ctx.calls, 400, Detail("Restaurant location not available"))
    ELSE RouteFor(order.status, driver, ctx, env.directions)

\* (mutant) a route that goes on without the restaurant's coordinates
Routed_NoRestaurantCheck(order, driver, env, ctx) ==
    IF ctx.restaurant = None
    THEN FetchRoute(ctx, "to_restaurant", driver, driver, env.directions)
    ELSE RouteFor(order.status, driver, ctx, env.directions)

\* what the route answers with the locations resolved
Routed(order, driver, env, ctx) ==
    IF ctx.restaurant = None
    THEN Answer(ctx.calls, 400, Detail("Restaurant location not available"))
    ELSE RouteFor(order.status, driver, ctx, env.directions)

\* the answer of get_navigation_route for the selected rows
Navigation(data, driver, env) ==
    IF data = <<>>
    THEN Answer(<<>>, 404, Detail("Order not found"))
    ELSE Routed(data[1], driver, env, Locations(data[1], env))

\* the request ends: its calls are made and its response leaves
Navigated(a) ==
    /\ calls' = a.calls
    /\ resp' = Reply("navigation", a.status_code, <<a.body>>)

\* get_navigation_route(order_id, driver_latitude, driver_longitude), in a
\* world env that settles what the geocoder finds at each call, what the
\* users table holds and what the directions endpoint answers
GetNavigationRoute(driver, env) ==
    /\ Navigated(Navigation(rows, driver, env))
    /\ UNCHANGED <<lifecycleVars, order_inputs, record, counts, passes, cent_over, lockVars,
                   rows, MAX_DEST_PER_MATRIX>>

----------------------------------------------------------------------------
(* The server *)

\* the response leaves; the worker takes the next request
Respond(w) ==
    /\ req[w].pc = "done"
    /\ req' = [req EXCEPT ![w] = Idle]
    /\ UNCHANGED <<orders, order_ids, codes, couriers, workers, ENABLE_ACTIVE_ORDER_CHECK, deskVars,
                   deliveryVars>>

\* the default of MAX_DEST_PER_MATRIX
DefaultMaxDest == 24

\* the runs in which no delivery route is called
NoDelivery ==
    /\ rows = <<>>
    /\ calls = <<>>
    /\ MAX_DEST_PER_MATRIX = DefaultMaxDest

\* an empty table, idle workers, no response yet and the counters at zero
InitServer ==
    /\ orders = [o \in {} |-> NewOrderRow(ExampleOrder, now)]
    /\ req = [w \in Workers |-> Idle]
    /\ resp = NoReply
    /\ counts = NoCounts
    /\ sanitization_lock = Unlocked
    /\ made = NoCounts

\* the runs of the order lifecycle: every order is placed with the example
\* payload, and no record is handed to the sanitizer
InitLifecycle ==
    /\ InitServer
    /\ order_inputs = {ExampleOrder}
    /\ record = NoData
    /\ passes = 0
    /\ cent_over = FALSE
    /\ NoDelivery

\* one order; one worker with the toggle either way, or two workers (two
\* server processes on the one store) with the toggle at its default
Init ==
    /\ InitLifecycle
    /\ order_ids = {"o1"}
    /\ codes = GeneratedCodes
    /\ couriers = Couriers
    /\ \/ workers = {"w1"} /\ ENABLE_ACTIVE_ORDER_CHECK \in BOOLEAN
       \/ workers = Workers /\ ENABLE_ACTIVE_ORDER_CHECK = FALSE

\* one order and one worker: the handlers run one after the other
InitSeq ==
    /\ InitLifecycle
    /\ order_ids = {"o1"}
    /\ codes = GeneratedCodes
    /\ couriers = Couriers
    /\ workers = {"w1"}
    /\ ENABLE_ACTIVE_ORDER_CHECK \in BOOLEAN

\* two orders, one courier and one worker, the toggle either way
InitFleet ==
    /\ InitLifecycle
    /\ order_ids = OrderIds
    /\ codes = {CodeMin}
    /\ couriers = {1}
    /\ workers = {"w1"}
    /\ ENABLE_ACTIVE_ORDER_CHECK \in BOOLEAN

Next ==
    \/ \E id \in order_ids, order_data \in order_inputs : PlaceOrder(id, order_data)
    \/ \E w \in Workers, id \in order_ids, new_status \in OrderStatus :
          UpdateStatusCall(w, id, new_status)
    \/ \E w \in Workers : UpdateStatusWrite(w)
    \/ \E w \in Workers, id \in order_ids, d \in couriers : AssignCall(w, id, d)
    \/ \E w \in Workers : AssignActiveCheck(w)
    \/ \E w \in Workers : AssignWrite(w)
    \/ \E w \in Workers, id \in order_ids, code \in Payloads : VerifyCall(w, id, code)
    \/ \E w \in Workers : VerifyWrite(w)
    \/ \E w \in Workers, id \in order_ids : CancelCall(w, id)
    \/ \E w \in Workers : CancelWrite(w)
    \/ \E w \in Workers : Respond(w)

Spec == Init /\ [][Next]_vars
SpecSeq == InitSeq /\ [][Next]_vars
SpecFleet == InitFleet /\ [][Next]_vars

\* the row of an order that was placed and confirmed
ConfirmedRow == Merge(NewOrderRow(ExampleOrder, now), [status |-> CONFIRMED, updated_at |-> now])

\* two confirmed orders, one courier, two workers and the busy check on
InitBusy ==
    /\ orders = [id \in OrderIds |-> ConfirmedRow]
    /\ req = [w \in Workers |-> Idle]
    /\ resp = NoReply
    /\ counts = NoCounts
    /\ sanitization_lock = Unlocked
    /\ made = NoCounts
    /\ order_inputs = {ExampleOrder}
    /\ record = NoData
    /\ passes = 0
    /\ cent_over = FALSE
    /\ NoDelivery
    /\ order_ids = OrderIds
    /\ codes = {CodeMin}
    /\ couriers = {1}
    /\ workers = Workers
    /\ ENABLE_ACTIVE_ORDER_CHECK = TRUE

\* the statuses the couriers' requests ask for
CourierStatuses == {PICKED_UP, EN_ROUTE}

\* the requests of the couriers on the two orders: assign, update-status,
\* verify-delivery and cancel
NextBusy ==
    \/ \E w \in Workers, id \in order_ids, new_status \in CourierStatuses :
          UpdateStatusCall(w, id, new_status)
    \/ \E w \in Workers : UpdateStatusWrite(w)
    \/ \E w \in Workers, id \in order_ids, d \in couriers : AssignCall(w, id, d)
    \/ \E w \in Workers : AssignActiveCheck(w)
    \/ \E w \in Workers : AssignWrite(w)
    \/ \E w \in Workers, id \in order_ids, code \in Payloads : VerifyCall(w, id, code)
    \/ \E w \in Workers : VerifyWrite(w)
    \/ \E w \in Workers, id \in order_ids : CancelCall(w, id)
    \/ \E w \in Workers : CancelWrite(w)
    \/ \E w \in Workers : Respond(w)

SpecBusy == InitBusy /\ [][NextBusy]_vars

----------------------------------------------------------------------------
(* The order desk: orders are placed with right and wrong arithmetic, and
   read back one by one and as a list *)

\* the lists of one to n elements of S
Lists(S, n) == UNION {[1..k -> S] : k \in 1..n}

\* two units at 2.50: the line subtotal right, a cent over, a unit over
ItemInputs ==
    {[price |-> 2500, quantity |-> 2, subtotal |-> s] : s \in {5000, 5010, 6000}}

\* what the submitted subtotal is off the sum of the lines by, and the
\* submitted total off its parts: nothing, a cent, whole units
SubtotalDrifts == {0, 10, 4000}
TotalDrifts == {0, 10, 50000}

\* the OrderCreate payloads: tax 1.00, discount 0.50
OrderInputs ==
    {[user_id |-> PyStr(<<"u", "1">>),
      delivery_address |-> PyStr(<<"c">>),
      order_items |-> items,
      subtotal |-> Sum([i \in DOMAIN items |-> items[i].subtotal]) + ds,
      tax_amount |-> 1000,
      delivery_fee |-> 0,
      tip_amount |-> 0,
      discount_amount |-> 500,
      total_amount |-> Sum([i \in DOMAIN items |-> items[i].subtotal]) + ds + 500 + dt] :
        items \in Lists(ItemInputs, MaxItems), ds \in SubtotalDrifts, dt \in TotalDrifts}

InitDesk ==
    /\ InitServer
    /\ order_ids = OrderIds
    /\ codes = {CodeMin}
    /\ couriers = {1}
    /\ workers = {"w1"}
    /\ ENABLE_ACTIVE_ORDER_CHECK = FALSE
    /\ order_inputs = OrderInputs
    /\ record = NoData
    /\ passes = 0
    /\ cent_over \in BOOLEAN
    /\ NoDelivery

NextDesk ==
    \/ \E id \in order_ids, order_data \in order_inputs : PlaceOrder(id, order_data)
    \/ \E id \in OrderIds : GetOrder(id)
    \/ ListOrders

SpecDesk == InitDesk /\ [][NextDesk]_vars

----------------------------------------------------------------------------
(* The sanitizer on its own: a record, well-formed or not, is handed to
   _sanitize_order_record again and again *)

\* the items of a stored record: None, a line with its subtotal, a line
\* whose subtotal is text while price and quantity are numbers, a line with
\* price and quantity alone, a line whose price is text, and a line whose
\* subtotal is not a whole number of cents
SanitizerItems ==
    {PyNone,
     [subtotal |-> PyFloat(10000)],
     [subtotal |-> PyStr(<<"a", "b", "c">>), price |-> PyFloat(5000), quantity |-> PyInt(2)],
     [price |-> PyFloat(5000), quantity |-> PyInt(2)],
     [price |-> PyStr(<<"b", "a", "d">>), quantity |-> PyInt(3)],
     [subtotal |-> PyFloat(3333)]}

\* a column that is missing, or holds one of the values
Column(k, values) == {NoData} \cup {[j \in {k} |-> v] : v \in values}

\* the records: the subtotal missing, right for one line of 10.00, a cent
\* over, as text, or far off; the tax missing, text or 1.00; a discount or
\* none; the total missing, 11.00, a cent over, or far off
Records ==
    {[order_items |-> items] @@ sub @@ tax @@ discount @@ total :
        items \in {<<>>} \cup Lists(SanitizerItems, MaxItems),
        sub \in Column("subtotal",
                       {PyFloat(10000), PyFloat(10010), PyFloat(20000),
                        PyStr(<<"1", "0", ".", "0", "0">>)}),
        tax \in Column("tax_amount", {PyStr(<<"b", "a", "d">>), PyFloat(1000)}),
        discount \in Column("discount_amount", {PyFloat(500)}),
        total \in Column("total_amount", {PyFloat(11000), PyFloat(11010), PyFloat(99000)})}

InitSanitizer ==
    /\ InitServer
    /\ order_ids = {"o1"}
    /\ codes = {CodeMin}
    /\ couriers = {1}
    /\ workers = {"w1"}
    /\ ENABLE_ACTIVE_ORDER_CHECK = FALSE
    /\ order_inputs = {ExampleOrder}
    /\ record \in Records
    /\ passes = 0
    /\ cent_over \in BOOLEAN
    /\ NoDelivery

NextSanitizer == Sanitize

SpecSanitizer == InitSanitizer /\ [][NextSanitizer]_vars

----------------------------------------------------------------------------
(* The counters on their own: two threads sanitize records, and the metrics
   are read in between *)

\* a record of one line of 10.00 and 1.00 of tax, with this subtotal and
\* this total
CounterRecord(subtotal, total_amount) ==
    [order_items |-> <<[subtotal |-> PyFloat(10000)]>>, subtotal |-> PyFloat(subtotal),
     tax_amount |-> PyFloat(1000), total_amount |-> PyFloat(total_amount)]

\* the records the threads are handed: right, the subtotal wrong, the total
\* wrong, both wrong
CounterRecords ==
    {CounterRecord(subtotal, total_amount) :
        subtotal \in {10000, 20000}, total_amount \in {11000, 99000}}

InitCounters ==
    /\ InitServer
    /\ order_ids = {"o1"}
    /\ codes = {CodeMin}
    /\ couriers = {1}
    /\ workers = Workers
    /\ ENABLE_ACTIVE_ORDER_CHECK = FALSE
    /\ order_inputs = {ExampleOrder}
    /\ record = NoData
    /\ passes = 0
    /\ cent_over = FALSE
    /\ NoDelivery

NextCounters ==
    \/ \E w \in Workers, order \in CounterRecords : SanitizeSteps(w, order)
    \/ \E w \in Workers : Acquire(w)
    \/ \E w \in Workers : Load(w)
    \/ \E w \in Workers : Store(w)
    \/ \E w \in Workers : Release(w)
    \/ SanitizationMetrics

SpecCounters == InitCounters /\ [][NextCounters]_vars

----------------------------------------------------------------------------
(* The dispatch listing on its own: the ready orders and the limit per
   matrix request are drawn at the start, and couriers ask for the listing *)

\* the most ready orders the select returns
MaxReady == 3
\* the largest limit of destinations per matrix request
MaxChunk == 2

\* what the restaurant's latitude column holds: a float, NULL, the empty
\* text, or text that is no number
CoordinateKinds == {"float", "none", "empty", "text"}

\* the joined restaurant of restaurant r: the latitude by its kind, the
\* longitude as numeric text
RestaurantInfo(r, kind) ==
    [latitude |-> CASE kind = "float" -> PyFloat((10 + r) * 1000)
                    [] kind = "none" -> PyNone
                    [] kind = "empty" -> PyStr(<<>>)
                    [] OTHER -> PyStr(<<"a", "b", "c">>),
     longitude |-> PyStr(<<"7", CASE r = 1 -> "1" [] r = 2 -> "2" [] r = 3 -> "3"
                                  [] r = 4 -> "4" [] OTHER -> "5">>)]

\* which restaurant each ready order is of: restaurants are numbered in the
\* order of their first appearance
Sharings ==
    {s \in UNION {[1..n -> 1..MaxReady] : n \in 1..MaxReady} :
        \A i \in DOMAIN s : \A r \in 1..(s[i] - 1) : \E j \in 1..(i - 1) : s[j] = r}

\* the results of the select of ready orders
ReadyRows ==
    {<<>>} \cup
    {[i \in DOMAIN s |->
        [order_id |-> i, restaurant_id |-> s[i], restaurants |-> RestaurantInfo(s[i], kinds[s[i]])]] :
        s \in Sharings, kinds \in [1..MaxReady -> CoordinateKinds]}

\* where the couriers are
Sources == {[lat |-> 12500, lng |-> 77500]}

InitReady ==
    /\ InitServer
    /\ order_ids = {"o1"}
    /\ codes = {CodeMin}
    /\ couriers = {1}
    /\ workers = {"w1"}
    /\ ENABLE_ACTIVE_ORDER_CHECK = FALSE
    /\ order_inputs = {ExampleOrder}
    /\ record = NoData
    /\ passes = 0
    /\ cent_over = FALSE
    /\ rows \in ReadyRows
    /\ calls = <<>>
    /\ MAX_DEST_PER_MATRIX \in 1..MaxChunk

\* what the provider may do with the chunks: any of the destinations
\* unreachable, any of the requests failed
Provider(source, chunks) ==
    \E unreachable \in SUBSET UNION {{chunks[c][i].restaurant_id : i \in DOMAIN chunks[c]} :
                                     c \in DOMAIN chunks},
       failed \in SUBSET DOMAIN chunks :
        FetchReadyOrders(source, unreachable, failed)

NextReady ==
    \E source \in Sources : Provider(source, Chunks(Dests(rows), MAX_DEST_PER_MATRIX))

SpecReady == InitReady /\ [][NextReady]_vars

----------------------------------------------------------------------------
(* Navigation on its own: the order the select returns is drawn at the
   start, and its courier asks for the route *)

\* what a latitude column may hold
StoredLatitudes(lat) == {PyFloat(lat), PyNone, PyStr(<<>>), PyStr(<<"a", "b", "c">>)}

\* the order rows the select of the route may return
NavigationOrders ==
    {[order_id |-> "o1", user_id |-> user_id, status |-> status,
      restaurants |-> [latitude |-> rlat, longitude |-> PyStr(<<"8", "0">>), address |-> raddr],
      latitude |-> clat, longitude |-> PyFloat(90000), delivery_address |-> caddr] :
        user_id \in {PyNone, PyStr(<<"u", "1">>)},
        status \in OrderStatus,
        rlat \in StoredLatitudes(20000),
        raddr \in {PyStr(<<>>), PyStr(<<"r">>)},
        clat \in StoredLatitudes(30000) \ {PyStr(<<"a", "b", "c">>)},
        caddr \in {PyNone, PyStr(<<"c">>)}}

\* what the world may do during a request
Worlds ==
    [first : BOOLEAN, customer : BOOLEAN, second : BOOLEAN, users : UserRows,
     directions : {"http_error", "no_routes", "route"}]

\* where the courier is
Drivers == {[lat |-> 10000, lng |-> 70000]}

InitNavigation ==
    /\ InitServer
    /\ order_ids = {"o1"}
    /\ codes = {CodeMin}
    /\ couriers = {1}
    /\ workers = {"w1"}
    /\ ENABLE_ACTIVE_ORDER_CHECK = FALSE
    /\ order_inputs = {ExampleOrder}
    /\ record = NoData
    /\ passes = 0
    /\ cent_over = FALSE
    /\ rows \in {<<>>} \cup {<<o>> : o \in NavigationOrders}
    /\ calls = <<>>
    /\ MAX_DEST_PER_MATRIX = DefaultMaxDest

NextNavigation == \E driver \in Drivers, env \in Worlds : GetNavigationRoute(driver, env)

SpecNavigation == InitNavigation /\ [][NextNavigation]_vars

----------------------------------------------------------------------------
(* The reads on their own: a store that holds rows of every age, among them
   rows from before the orders carried an address, and the selects of the
   delivery routes *)

\* the rows the store may hold for an order: with the address of the
\* customer, or from before the orders carried one, with or without a user;
\* the subtotal is the sum of the items or has drifted from it
StoredRows ==
    {SetItem(Merge(NewOrderRow(ExampleOrder, now),
                   [user_id |-> age[1], delivery_address |-> age[2], subtotal |-> subtotal,
                    delivery_user_id |-> Some(1)]),
             "restaurant_id", PyInt(1)) :
        age \in {<<PyNone, PyNone>>, <<PyStr(<<"u", "1">>), PyNone>>,
                 <<PyStr(<<"u", "1">>), PyStr(<<"c">>)>>},
        subtotal \in {PyFloat(25980), PyFloat(20000)}}

\* the columns the list handlers select by, and the values of the path
ListColumns ==
    {<<"user_id", PyStr(<<"u", "1">>)>>, <<"restaurant_id", PyInt(1)>>,
     <<"delivery_user_id", Some(1)>>}

\* the results of the selects of the delivery routes
ReadyResults == {r \in ReadyRows : Len(r) <= 1}
NavigationResults ==
    {<<>>} \cup {<<o>> : o \in {n \in NavigationOrders :
                                  /\ n.status = ASSIGNED
                                  /\ n.user_id # PyNone
                                  /\ n.restaurants.address = PyStr(<<"r">>)
                                  /\ n.restaurants.latitude = PyFloat(20000)
                                  /\ n.latitude # PyStr(<<>>)}}

InitReads ==
    /\ orders \in [OrderIds -> StoredRows]
    /\ req = [w \in Workers |-> Idle]
    /\ resp = NoReply
    /\ counts = NoCounts
    /\ sanitization_lock = Unlocked
    /\ made = NoCounts
    /\ order_ids = OrderIds
    /\ codes = {CodeMin}
    /\ couriers = {1}
    /\ workers = {"w1"}
    /\ ENABLE_ACTIVE_ORDER_CHECK = FALSE
    /\ order_inputs = {ExampleOrder}
    /\ record = NoData
    /\ passes = 0
    /\ cent_over = FALSE
    /\ rows \in ReadyResults \cup NavigationResults
    /\ calls = <<>>
    /\ MAX_DEST_PER_MATRIX = DefaultMaxDest

NextReads ==
    \/ \E id \in OrderIds \cup {"o3"} : GetOrder(id)
    \/ ListOrders
    \/ \E by \in ListColumns, users \in [OrderIds -> UserRows] : GetOrdersBy(by[1], by[2], users)
    \/ /\ rows \in ReadyResults
       /\ \E source \in Sources : Provider(source, Chunks(Dests(rows), MAX_DEST_PER_MATRIX))
    \/ /\ rows \in NavigationResults
       /\ \E driver \in Drivers, env \in Worlds : GetNavigationRoute(driver, env)

SpecReads == InitReads /\ [][NextReads]_vars

----------------------------------------------------------------------------
(* The delivery routes call by call: a request waits for the store, then
   for the provider, and every call of the provider is made under a timeout *)

\* the locals of a fetch_ready_orders that has not selected yet
ReadyRequest(source) ==
    [pc |-> "select", op |-> "ready", source |-> source, pending |-> {}, failed |-> {},
     unreachable |-> {}]

\* the locals of a get_navigation_route that has not selected yet
NavigationRequest(driver) ==
    [pc |-> "select", op |-> "navigation", driver |-> driver,
     env |-> [first |-> FALSE, customer |-> FALSE, second |-> FALSE, users |-> <<>>,
              directions |-> "http_error"]]

\* the response is ready and the locals are gone
Completed(r) == [pc |-> "done", op |-> r.op]

\* a courier asks for the ready orders
ReadyCall(w, source) ==
    /\ Free(w)
    /\ rows \in ReadyRows
    /\ req' = [req EXCEPT ![w] = ReadyRequest(source)]
    /\ UNCHANGED <<orders, order_ids, codes, couriers, workers, ENABLE_ACTIVE_ORDER_CHECK, deskVars,
                   deliveryVars>>

\* the select returns: without a chunk the listing is returned at once,
\* else one task per chunk is handed to asyncio.gather
ReadySelect(w) ==
    /\ req[w].pc = "select"
    /\ req[w].op = "ready"
    /\ LET chunks == Chunks(Dests(rows), MAX_DEST_PER_MATRIX)
       IN  IF chunks = <<>>
           THEN /\ Fetched(rows, chunks, req[w].source, {}, {})
                /\ req' = [req EXCEPT ![w] = Completed(req[w])]
           ELSE /\ req' = [req EXCEPT ![w].pc = "gather", ![w].pending = DOMAIN chunks]
                /\ UNCHANGED <<calls, resp>>
    /\ UNCHANGED <<storeVars, order_inputs, record, counts, passes, cent_over, lockVars,
                   rows, MAX_DEST_PER_MATRIX>>

\* the provider answers the request of a chunk within the timeout; it has
\* reached no road for the restaurants in unreachable
ChunkReturns(w, c, unreachable) ==
    /\ req[w].pc = "gather"
    /\ c \in req[w].pending
    /\ req' = [req EXCEPT ![w].pending = @ \ {c}, ![w].unreachable = @ \cup unreachable]
    /\ UNCHANGED <<orders, order_ids, codes, couriers, workers, ENABLE_ACTIVE_ORDER_CHECK, deskVars,
                   deliveryVars>>

\* the request of a chunk ends in an httpx.HTTPError, the timeout of 20
\* seconds among them: the task returns {}
ChunkFails(w, c) ==
    /\ req[w].pc = "gather"
    /\ c \in req[w].pending
    /\ req' = [req EXCEPT ![w].pending = @ \ {c}, ![w].failed = @ \cup {c}]
    /\ UNCHANGED <<orders, order_ids, codes, couriers, workers, ENABLE_ACTIVE_ORDER_CHECK, deskVars,
                   deliveryVars>>

\* (mutant) a gather that is done once every task has an answer of the
\* provider
GatherDone_EveryAnswer(r) == r.pending = {} /\ r.failed = {}

\* await asyncio.gather(*tasks) is done once every task has returned, with
\* the answer of the provider or with {}
GatherDone(r) == r.pending = {}

\* the results are merged and the listing is returned
FanIn(w) ==
    /\ req[w].pc = "gather"
    /\ GatherDone(req[w])
    /\ Fetched(rows, Chunks(Dests(rows), MAX_DEST_PER_MATRIX), req[w].source,
               req[w].unreachable, req[w].failed)
    /\ req' = [req EXCEPT ![w] = Completed(req[w])]
    /\ UNCHANGED <<storeVars, order_inputs, record, counts, passes, cent_over, lockVars,
                   rows, MAX_DEST_PER_MATRIX>>

\* a courier asks for the route of an order
NavigationCall(w, driver) ==
    /\ Free(w)
    /\ rows \in NavigationResults
    /\ req' = [req EXCEPT ![w] = NavigationRequest(driver)]
    /\ UNCHANGED <<orders, order_ids, codes, couriers, workers, ENABLE_ACTIVE_ORDER_CHECK, deskVars,
                   deliveryVars>>

\* the request ends with the answer a
NavigationEnds(w, a) ==
    /\ Navigated(a)
    /\ req' = [req EXCEPT ![w] = Completed(req[w])]

\* the answer needs the directions endpoint
NeedsDirections(a) == \E i \in DOMAIN a.calls : a.calls[i].kind = "directions"

\* the select returns: 404 without a row
NavigationSelect(w) ==
    /\ req[w].pc = "select"
    /\ req[w].op = "navigation"
    /\ IF rows = <<>>
       THEN NavigationEnds(w, Navigation(rows, req[w].driver, req[w].env))
       ELSE /\ req' = [req EXCEPT ![w].pc = "locate"]
            /\ UNCHANGED <<calls, resp>>
    /\ UNCHANGED <<storeVars, order_inputs, record, counts, passes, cent_over, lockVars,
                   rows, MAX_DEST_PER_MATRIX>>

\* the two places are settled: each call of the geocoder finds the address
\* or fails within its timeout of 10 seconds, and the users table answers;
\* a request that cannot be routed ends here with its 400
Locate(w, first, customer, second, users) ==
    /\ req[w].pc = "locate"
    /\ LET env == [req[w].env EXCEPT !.first = first, !.customer = customer, !.second = second,
                                     !.users = users]
           a == Navigation(rows, req[w].driver, env)
       IN  IF NeedsDirections(a)
           THEN /\ req' = [req EXCEPT ![w].pc = "directions", ![w].env = env]
                /\ UNCHANGED <<calls, resp>>
           ELSE NavigationEnds(w, a)
    /\ UNCHANGED <<storeVars, order_inputs, record, counts, passes, cent_over, lockVars,
                   rows, MAX_DEST_PER_MATRIX>>

\* the directions endpoint answers, or the request ends in an error of httpx
\* (the timeout of 20 seconds among them), which is the response 500
Directions(w, outcome) ==
    /\ req[w].pc = "directions"
    /\ NavigationEnds(w, Navigation(rows, req[w].driver, [req[w].env EXCEPT !.directions = outcome]))
    /\ UNCHANGED <<storeVars, order_inputs, record, counts, passes, cent_over, lockVars,
                   rows, MAX_DEST_PER_MATRIX>>

\* the selects of the runs call by call
AwaitRows == {r \in ReadyRows : Len(r) <= 2} \cup NavigationResults

InitAwait ==
    /\ InitServer
    /\ order_ids = {"o1"}
    /\ codes = {CodeMin}
    /\ couriers = {1}
    /\ workers = {"w1"}
    /\ ENABLE_ACTIVE_ORDER_CHECK = FALSE
    /\ order_inputs = {ExampleOrder}
    /\ record = NoData
    /\ passes = 0
    /\ cent_over = FALSE
    /\ rows \in AwaitRows
    /\ calls = <<>>
    /\ MAX_DEST_PER_MATRIX \in 1..MaxChunk

\* the restaurants of a chunk
ChunkRestaurants(c) ==
    LET chunks == Chunks(Dests(rows), MAX_DEST_PER_MATRIX)
    IN  {chunks[c][i].restaurant_id : i \in DOMAIN chunks[c]}

\* the provider settles a call: an answer, or an error or timeout
ChunkSettles(w, c) ==
    /\ req[w].pc = "gather"
    /\ c \in req[w].pending
    /\ \/ \E unreachable \in SUBSET ChunkRestaurants(c) : ChunkReturns(w, c, unreachable)
       \/ ChunkFails(w, c)

LocateSettles(w) == \E first, customer, second \in BOOLEAN, users \in UserRows :
                        Locate(w, first, customer, second, users)

DirectionsSettles(w) == \E outcome \in {"http_error", "no_routes", "route"} : Directions(w, outcome)

NextAwait ==
    \/ \E w \in workers, source \in Sources : ReadyCall(w, source)
    \/ \E w \in workers : ReadySelect(w)
    \/ \E w \in workers, c \in 1..MaxReady : ChunkSettles(w, c)
    \/ \E w \in workers : FanIn(w)
    \/ \E w \in workers, driver \in Drivers : NavigationCall(w, driver)
    \/ \E w \in workers : NavigationSelect(w)
    \/ \E w \in workers : LocateSettles(w)
    \/ \E w \in workers : DirectionsSettles(w)
    \/ \E w \in workers : Respond(w)

\* the locals a request may have once the await it is at has resumed: after
\* the select, after the task of a chunk has returned, after the gather,
\* after the places are settled and after the directions endpoint
Resumed(r) ==
    CASE r.pc = "select" /\ r.op = "ready" ->
             {Completed(r)} \cup {[r EXCEPT !.pc = "gather", !.pending = 1..n] : n \in 1..MaxReady}
      [] r.pc = "select" /\ r.op = "navigation" -> {Completed(r), [r EXCEPT !.pc = "locate"]}
      [] r.pc = "gather" /\ GatherDone(r) -> {Completed(r)}
      [] r.pc = "gather" /\ ~GatherDone(r) ->
             {[r EXCEPT !.pending = @ \ {c}, !.unreachable = @ \cup u] :
                 c \in r.pending, u \in SUBSET (1..MaxReady)}
             \cup {[r EXCEPT !.pending = @ \ {c}, !.failed = @ \cup {c}] : c \in r.pending}
      [] r.pc = "locate" ->
             {Completed(r)}
             \cup {[r EXCEPT !.pc = "directions", !.env = env] :
                       env \in {e \in Worlds : e.directions = r.env.directions}}
      [] r.pc = "directions" -> {Completed(r)}
      [] OTHER -> {}

\* the handler of the worker goes on from the await it is at
Resumes(w) == \E r \in Resumed(req[w]) : req' = [req EXCEPT ![w] = r]

\* every call of the store returns, and every call of the provider returns or
\* ends in its timeout (10 seconds for the geocoder, 20 for the matrix and
\* the directions): the event loop resumes the handler that awaits them
AwaitFairness == \A w \in Workers : WF_req(Resumes(w))

SpecAwait == InitAwait /\ [][NextAwait]_vars /\ AwaitFairness

----------------------------------------------------------------------------
(* Properties of the order state machine *)

\* the worker serving a request of handler op has its response ready
Responded(w, op, status_code) ==
    /\ req[w].pc = "done"
    /\ req[w].op = op
    /\ req[w].response.status_code = status_code

\* C1: an order becomes delivered only through a successful verify-delivery
\* call, so every order in status delivered has delivery_code_used = TRUE.
C1_DeliveredOnlyByVerification ==
    \A id \in DOMAIN orders :
        orders[id].status = DELIVERED => orders[id].delivery_code_used = TRUE

\* C2: delivered and cancelled are terminal: an order whose stored status is
\* delivered or cancelled never changes status again.
C2_TerminalStatuses ==
    [][\A id \in DOMAIN orders :
          orders[id].status \in {DELIVERED, CANCELLED}
              => orders'[id].status = orders[id].status]_vars

\* C3: with the requests served one after the other, once an order has a
\* stored delivery code no step changes the code, and no update-status step
\* changes delivery_code_used (only a verification's write does); a code
\* appears only by the write of an update-status to picked_up on an order
\* that had none.
C3_CodeSetOnce ==
    [][\A id \in DOMAIN orders :
          /\ Truthy(orders[id].delivery_code)
                => /\ orders'[id].delivery_code = orders[id].delivery_code
                   /\ \/ orders'[id].delivery_code_used = orders[id].delivery_code_used
                      \/ \E w \in Workers : VerifyWrite(w)
          /\ (~Truthy(orders[id].delivery_code) /\ Truthy(orders'[id].delivery_code))
                => /\ \E w \in Workers :
                         /\ UpdateStatusWrite(w)
                         /\ req[w].order_id = id
                         /\ req[w].new_status = PICKED_UP
                   /\ orders'[id].status = PICKED_UP
                   /\ orders'[id].delivery_code_used = FALSE]_vars

\* C3 witness: an order back in picked_up after its code was used (it left
\* picked_up, was delivered by verification, and re-entered picked_up)
C3_Witness ==
    \E id \in DOMAIN orders :
        /\ orders[id].status = PICKED_UP
        /\ orders[id].delivery_code_used = TRUE
        /\ Truthy(orders[id].delivery_code)

----------------------------------------------------------------------------
(* Properties of verify_delivery_code *)

\* the text the handler compares: str(code).strip()
Trimmed(v) == Strip(Str(v))

\* C4: verify-delivery on an existing order in picked_up or en_route, with a
\* submitted code equal to the stored code after trimming both and comparing
\* as text, is accepted, and its one write sets status to delivered, sets
\* delivery_code_used and stamps actual_delivery_time; the call returns 200.
C4_VerifySuccess ==
    [][/\ \A w \in Workers, id \in OrderIds, code \in Payloads :
            ( /\ VerifyCall(w, id, code)
              /\ id \in DOMAIN orders
              /\ orders[id].status \in {PICKED_UP, EN_ROUTE}
              /\ orders[id].delivery_code # PyNone
              /\ Trimmed(code) = Trimmed(orders[id].delivery_code) )
            => /\ req'[w].pc = "update"
               /\ req'[w].op = "verify"
               /\ req'[w].order_id = id
       /\ \A w \in Workers :
            VerifyWrite(w)
            => LET id == req[w].order_id IN
               /\ orders'[id].status = DELIVERED
               /\ orders'[id].delivery_code_used = TRUE
               /\ orders'[id].actual_delivery_time # None
               /\ req'[w].pc = "done"
               /\ req'[w].response.status_code = 200]_vars

\* C4 witness: a verification has returned 200 and the order is delivered
C4_Witness ==
    \E w \in Workers :
        /\ Responded(w, "verify", 200)
        /\ orders[req[w].order_id].status = DELIVERED
        /\ orders[req[w].order_id].delivery_code_used = TRUE

\* the cases in which verify-delivery rejects the call
VerifyRejectCase(id, code) ==
    \/ code = PyNone
    \/ code = PyStr(<<>>)
    \/ id \notin DOMAIN orders
    \/ orders[id].delivery_code = PyNone
    \/ Trimmed(code) # Trimmed(orders[id].delivery_code)
    \/ orders[id].status \notin {PICKED_UP, EN_ROUTE}

\* C5: every rejected verify-delivery call (missing or empty code, unknown
\* order, no stored code, mismatched code, status other than picked_up or
\* en_route) ends with a 400 or 404 and no write: the table is unchanged and
\* no update is pending.
C5_VerifyRejectedNoWrite ==
    [][\A w \in Workers, id \in OrderIds, code \in Payloads :
          (VerifyCall(w, id, code) /\ VerifyRejectCase(id, code))
          => /\ orders' = orders
             /\ req'[w].pc = "done"
             /\ req'[w].response.status_code \in {400, 404}]_vars

\* C5 witness: a verification was rejected for a wrong code on an order that
\* is picked up
C5_Witness ==
    \E w \in Workers :
        /\ Responded(w, "verify", 400)
        /\ req[w].response.detail = <<"Invalid delivery code">>
        /\ orders[req[w].order_id].status = PICKED_UP

----------------------------------------------------------------------------
(* Properties of update_order_status and cancel_order *)

\* the elements of a sequence
Range(seq) == {seq[i] : i \in DOMAIN seq}

\* C6: update-status to picked_up is accepted when the order's status is
\* assigned, ready or confirmed; from every other status it is rejected with
\* a 400 whose detail names the current status, and the table is unchanged.
C6_PickupGuard ==
    [][\A w \in Workers, id \in OrderIds :
          (UpdateStatusCall(w, id, PICKED_UP) /\ id \in DOMAIN orders)
          => IF orders[id].status \in {ASSIGNED, READY, CONFIRMED}
             THEN /\ req'[w].pc = "update"
                  /\ req'[w].update_data.status = PICKED_UP
             ELSE /\ req'[w].pc = "done"
                  /\ req'[w].response.status_code = 400
                  /\ orders[id].status \in Range(req'[w].response.detail)
                  /\ orders' = orders]_vars

\* C6 witness: a pickup of an order that is already picked up was refused
C6_Witness ==
    \E w \in Workers :
        /\ Responded(w, "update_status", 400)
        /\ req[w].response.detail =
              <<"Invalid transition: cannot mark as picked_up from '", PICKED_UP, "'">>
        /\ orders[req[w].order_id].status = PICKED_UP

\* C7: cancel on an existing order is accepted from every status but
\* delivered and cancelled, and its write sets the status to cancelled and
\* returns 200; from delivered or cancelled it returns 400 and for an
\* unknown id 404, with the table unchanged (no row created).
C7_Cancel ==
    [][/\ \A w \in Workers, id \in OrderIds :
            CancelCall(w, id)
            => IF id \notin DOMAIN orders
               THEN /\ req'[w].pc = "done"
                    /\ req'[w].response.status_code = 404
                    /\ orders' = orders
               ELSE IF orders[id].status \in {DELIVERED, CANCELLED}
               THEN /\ req'[w].pc = "done"
                    /\ req'[w].response.status_code = 400
                    /\ orders' = orders
               ELSE /\ req'[w].pc = "update"
                    /\ req'[w].op = "cancel"
       /\ \A w \in Workers :
            CancelWrite(w)
            => /\ orders'[req[w].order_id].status = CANCELLED
               /\ req'[w].pc = "done"
               /\ req'[w].response.status_code = 200]_vars

\* C7 witness: a cancel has returned 200 and the order is cancelled
C7_Witness ==
    \E w \in Workers :
        /\ Responded(w, "cancel", 200)
        /\ orders[req[w].order_id].status = CANCELLED

----------------------------------------------------------------------------
(* Properties of assign_delivery_user *)

\* the courier is the delivery user of an order that is on its way
HoldsActiveOrder(d) ==
    \E o \in DOMAIN orders :
        /\ orders[o].delivery_user_id = Some(d)
        /\ orders[o].status \in {ASSIGNED, PICKED_UP, EN_ROUTE}

\* C8 as stated: assign on an existing order in ready or confirmed always
\* assigns, so a 400 from assign is only ever about an order in another
\* status (a rejected call leaves the order as the call found it).
C8_EligibleOrderAlwaysAssigned ==
    \A w \in Workers :
        Responded(w, "assign", 400)
            => orders[req[w].order_id].status \notin {READY, CONFIRMED}

\* C8 amended: assign on an existing order in ready or confirmed goes on to
\* its one write, which sets delivery_user_id to the requesting courier and
\* status to assigned and touches no other row, unless the busy check is
\* enabled and finds the courier holding an active order; in any other
\* status the call returns 400 and for an unknown id 404, the table unchanged.
C8_Assign ==
    [][/\ \A w \in Workers, id \in OrderIds, d \in Couriers :
            AssignCall(w, id, d)
            => IF id \notin DOMAIN orders
               THEN /\ req'[w].pc = "done"
                    /\ req'[w].response.status_code = 404
                    /\ orders' = orders
               ELSE IF orders[id].status \notin {READY, CONFIRMED}
               THEN /\ req'[w].pc = "done"
                    /\ req'[w].response.status_code = 400
                    /\ orders' = orders
               ELSE /\ req'[w].pc \in {"active_check", "update"}
                    /\ req'[w].pc = "active_check" => ENABLE_ACTIVE_ORDER_CHECK
       /\ \A w \in Workers :
            (AssignActiveCheck(w) /\ ~HoldsActiveOrder(req[w].delivery_user_id))
            => req'[w].pc = "update"
       /\ \A w \in Workers :
            AssignWrite(w)
            => LET id == req[w].order_id IN
               /\ orders'[id].delivery_user_id = Some(req[w].delivery_user_id)
               /\ orders'[id].status = ASSIGNED
               /\ \A o \in DOMAIN orders \ {id} : orders'[o] = orders[o]
               /\ req'[w].pc = "done"
               /\ req'[w].response.status_code = 200]_vars

\* C8 witness: an assign has returned 200 and the order is assigned
C8_Witness ==
    \E w \in Workers :
        /\ Responded(w, "assign", 200)
        /\ orders[req[w].order_id].status = ASSIGNED
        /\ orders[req[w].order_id].delivery_user_id # None

\* C9: with the busy check disabled, an assign that has passed the
\* eligibility check writes whatever the row holds by then: its write sets
\* delivery_user_id to its own courier and status to assigned and returns
\* 200, and leaves any other request that passed the check on its way to its
\* own write; so of two such requests the later write decides the courier.
C9_LastWriteWins ==
    [][\A w \in Workers :
          AssignWrite(w)
          => LET id == req[w].order_id IN
             /\ orders'[id].delivery_user_id = Some(req[w].delivery_user_id)
             /\ orders'[id].status = ASSIGNED
             /\ req'[w].pc = "done"
             /\ req'[w].response.status_code = 200
             /\ \A v \in Workers \ {w} : req'[v] = req[v]]_vars

\* C9 witness: two assigns by different couriers on the same order have
\* both passed the eligibility check and neither has written yet
C9_Witness ==
    \E w \in Workers, v \in Workers :
        /\ w # v
        /\ ~ENABLE_ACTIVE_ORDER_CHECK
        /\ req[w].pc = "update" /\ req[w].op = "assign"
        /\ req[v].pc = "update" /\ req[v].op = "assign"
        /\ req[w].order_id = req[v].order_id
        /\ req[w].delivery_user_id # req[v].delivery_user_id

\* C10: with the toggle enabled, an assign on an eligible order runs the busy
\* check, which rejects it with 400 and leaves the table unchanged whenever
\* the courier is the delivery user of an order in assigned, picked_up or
\* en_route; with the toggle disabled the check is never run.
C10_BusyCheck ==
    [][/\ \A w \in Workers :
            (AssignActiveCheck(w) /\ HoldsActiveOrder(req[w].delivery_user_id))
            => /\ req'[w].pc = "done"
               /\ req'[w].response.status_code = 400
               /\ orders' = orders
       /\ \A w \in Workers, id \in OrderIds, d \in Couriers :
            ( /\ AssignCall(w, id, d)
              /\ id \in DOMAIN orders
              /\ orders[id].status \in {READY, CONFIRMED} )
            => req'[w].pc = IF ENABLE_ACTIVE_ORDER_CHECK THEN "active_check" ELSE "update"
       /\ \A w \in Workers :
            AssignActiveCheck(w) => ENABLE_ACTIVE_ORDER_CHECK]_vars

\* C10 witness: the busy check has refused a courier who holds an order that
\* is picked up
C10_Witness ==
    \E w \in Workers, o \in DOMAIN orders :
        /\ Responded(w, "assign", 400)
        /\ req[w].response.detail # <<>>
        /\ orders[req[w].order_id].status \in {READY, CONFIRMED}
        /\ o # req[w].order_id
        /\ orders[o].status = PICKED_UP
        /\ orders[o].delivery_user_id # None

----------------------------------------------------------------------------
(* Properties of the transition table *)

\* the transitions section 4.1 of the specification lets the generic
\* status update make: the forward chain, the assignment, the pickup, the
\* departure, and the cancellation of an order that is not finished
Section41Allows(current_status, new_status) ==
    \/ <<current_status, new_status>> \in
          {<<PENDING, CONFIRMED>>, <<CONFIRMED, PREPARING>>, <<PREPARING, READY>>,
           <<READY, ASSIGNED>>, <<CONFIRMED, ASSIGNED>>, <<PICKED_UP, EN_ROUTE>>}
    \/ new_status = PICKED_UP /\ current_status \in {ASSIGNED, READY, CONFIRMED}
    \/ new_status = CANCELLED /\ current_status \notin {DELIVERED, CANCELLED}

\* C11: the transition table is total: for every pair (current status,
\* requested status), update-status on an existing order goes on to its
\* write exactly when section 4.1 allows the transition, and otherwise
\* answers 400 and writes nothing; no pair is accepted as a no-op.
C11_TransitionTable ==
    [][\A w \in Workers, id \in OrderIds, new_status \in OrderStatus :
          (UpdateStatusCall(w, id, new_status) /\ id \in DOMAIN orders)
          => IF Section41Allows(orders[id].status, new_status)
             THEN /\ req'[w].pc = "update"
                  /\ req'[w].update_data.status = new_status
             ELSE /\ req'[w].pc = "done"
                  /\ req'[w].response.status_code = 400
                  /\ orders' = orders]_vars

\* the detail of the illegal-transition error of verify-delivery
InvalidDelivered(current_status) ==
    <<"Invalid transition: cannot mark as delivered from '", current_status, "'">>

\* C12 as stated: verify-delivery with a non-empty code on an order in
\* pending is answered 400 "Invalid transition: cannot mark as delivered
\* from 'pending'", whatever code the order stores and whatever was sent.
C12_PendingAlwaysInvalidTransition ==
    [][\A w \in Workers, id \in OrderIds, code \in Payloads :
          ( /\ VerifyCall(w, id, code)
            /\ Truthy(code)
            /\ id \in DOMAIN orders
            /\ orders[id].status = PENDING )
          => /\ req'[w].pc = "done"
             /\ req'[w].response = HTTPException(400, InvalidDelivered(PENDING))]_vars

\* C12 amended: verify-delivery with a non-empty code on an order in pending
\* is answered 400 and writes nothing; the detail is "Invalid transition:
\* cannot mark as delivered from 'pending'" when the order stores a code and
\* the submitted code equals it after trimming, "No delivery code set for
\* this order" when the order stores no code, and "Invalid delivery code"
\* when the two codes differ.
C12_PendingVerifyRejected ==
    [][\A w \in Workers, id \in OrderIds, code \in Payloads :
          ( /\ VerifyCall(w, id, code)
            /\ Truthy(code)
            /\ id \in DOMAIN orders
            /\ orders[id].status = PENDING )
          => /\ req'[w].pc = "done"
             /\ req'[w].response.status_code = 400
             /\ orders' = orders
             /\ req'[w].response.detail =
                  IF ~Truthy(orders[id].delivery_code)
                  THEN <<"No delivery code set for this order">>
                  ELSE IF Trimmed(code) # Trimmed(orders[id].delivery_code)
                  THEN <<"Invalid delivery code">>
                  ELSE InvalidDelivered(PENDING)]_vars

\* C12 witness: a verification of an order in pending was refused as an
\* illegal transition (the order stores the code that was sent)
C12_Witness ==
    \E w \in Workers :
        /\ Responded(w, "verify", 400)
        /\ req[w].response.detail = InvalidDelivered(PENDING)
        /\ orders[req[w].order_id].status = PENDING
        /\ Truthy(orders[req[w].order_id].delivery_code)

\* C13: delivery_code_used is false on a new row and becomes true only by
\* the write of a verify-delivery call on that order; no step of place,
\* update-status, assign or cancel sets it.
C13_UsedOnlyByVerification ==
    [][\A id \in DOMAIN orders' :
          IF id \in DOMAIN orders
          THEN (~orders[id].delivery_code_used /\ orders'[id].delivery_code_used)
                  => \E w \in Workers : VerifyWrite(w) /\ req[w].order_id = id
          ELSE ~orders'[id].delivery_code_used]_vars

\* C13 witness: an order whose code was used has since been moved on by the
\* other operations and still carries the flag
C13_Witness ==
    \E id \in DOMAIN orders :
        /\ orders[id].delivery_code_used
        /\ orders[id].status = EN_ROUTE
        /\ orders[id].delivery_user_id # None

\* C16: orders are never hard-deleted: every order id in the table stays in
\* the table, whatever operation runs (a cancel sets the status alone).
C16_NeverDeleted ==
    [][DOMAIN orders \subseteq DOMAIN orders']_vars

\* C16 witness: a cancelled order is in the table after its cancel has been
\* answered and every worker is idle again
C16_Witness ==
    \E id \in DOMAIN orders :
        /\ orders[id].status = CANCELLED
        /\ \A w \in workers : req[w].pc = "idle"

----------------------------------------------------------------------------
(* Properties of place_order *)

\* the sum of the line subtotals of a payload
LineSum(order_data) ==
    Sum([i \in DOMAIN order_data.order_items |-> order_data.order_items[i].subtotal])

\* the total the parts of a payload add up to
PartsSum(order_data) ==
    order_data.subtotal + order_data.tax_amount + order_data.delivery_fee
    + order_data.tip_amount - order_data.discount_amount

RowLineSum(row) == Sum([i \in DOMAIN row.order_items |-> row.order_items[i].subtotal.int])

RowPartsSum(row) ==
    row.subtotal.int + row.tax_amount.int + row.delivery_fee.int
    + row.tip_amount.int - row.discount_amount.int

\* C15 as stated: every stored order has, exactly to the cent, subtotal =
\* sum of the item subtotals and total = subtotal + tax + delivery_fee + tip
\* - discount, and every item has subtotal = price x quantity.
C15_ExactArithmetic ==
    \A id \in DOMAIN orders :
        /\ orders[id].subtotal.int = RowLineSum(orders[id])
        /\ orders[id].total_amount.int = RowPartsSum(orders[id])
        /\ \A i \in DOMAIN orders[id].order_items :
              LET it == orders[id].order_items[i]
              IN  it.subtotal.int = it.price.int * it.quantity.int

\* C15 amended: every stored order has its subtotal within a cent of the
\* sum of the item subtotals, its total within a cent of subtotal + tax +
\* delivery_fee + tip - discount, and every item's subtotal within a cent of
\* price x quantity.
C15_ArithmeticWithinACent ==
    \A id \in DOMAIN orders :
        /\ Abs(orders[id].subtotal.int - RowLineSum(orders[id])) <= Tolerance
        /\ Abs(orders[id].total_amount.int - RowPartsSum(orders[id])) <= Tolerance
        /\ \A i \in DOMAIN orders[id].order_items :
              LET it == orders[id].order_items[i]
              IN  Abs(it.subtotal.int - it.price.int * it.quantity.int) <= Tolerance

\* C15 witness: a stored order whose subtotal is a cent off its lines and
\* whose total is a cent off its parts
C15_Witness ==
    \E id \in DOMAIN orders :
        /\ Abs(orders[id].subtotal.int - RowLineSum(orders[id])) = Tolerance
        /\ Abs(orders[id].total_amount.int - RowPartsSum(orders[id])) = Tolerance

----------------------------------------------------------------------------
(* Properties of the reads *)

\* the sanitizer finds nothing to correct in the record
Sanitary(r) ==
    /\ ~SanitizeOrderRecord(r).subtotal_changed
    /\ ~SanitizeOrderRecord(r).total_changed

\* C17: a read never fails because of drifted amounts: get-order on an
\* existing order answers 200 with a record the sanitizer has nothing to
\* correct in, and every record of the admin listing is such a record.
C17_ReadsNeverFail ==
    [][/\ \A id \in OrderIds :
            (GetOrder(id) /\ id \in DOMAIN orders)
            => /\ resp'.status_code = 200
               /\ Sanitary(resp'.body[1])
       /\ ListOrders => \A i \in DOMAIN resp'.body : Sanitary(resp'.body[i])]_vars

----------------------------------------------------------------------------
(* Properties of the sanitizer *)

\* the contribution of an item by section 4.2 of the specification: its
\* stored subtotal if present and numeric, else price x quantity, and 0 for
\* an item that cannot be parsed
Section42Contribution(it) ==
    IF ~IsDict(it) THEN 0
    ELSE IF Float(Get(it, "subtotal", PyNone)) # None
    THEN Float(it.subtotal)[1]
    ELSE IF Float(Get(it, "price", PyNone)) # None /\ Float(Get(it, "quantity", PyNone)) # None
    THEN Mul(Float(it.price)[1], Float(it.quantity)[1])
    ELSE 0

\* C18: after sanitization the subtotal of the record is the sum, rounded to
\* cents, of the contributions of its items by section 4.2 (a stored
\* subtotal that the sanitizer keeps because it is within the tolerance of
\* 0.01 counts as equal).
C18_SubtotalFromItems ==
    [][Sanitize
       => LET items == Get(record', "order_items", <<>>)
              expected == Round2(Sum([i \in DOMAIN items |-> Section42Contribution(items[i])]))
              subtotal == Float(Get(record', "subtotal", PyNone))
          IN  /\ subtotal # None
              /\ Abs(subtotal[1] - expected) <= Tolerance]_vars

\* a fee component coerced to 0 when it is missing or no number
Coerced(r, k) == Or(SafeFloat(Get(r, k, PyNone), Some(0)), 0)

\* C19: after sanitization the total of the record is subtotal + tax +
\* delivery_fee + tip - discount rounded to cents, with the subtotal the
\* sanitizer left and every missing or non-numeric fee taken as 0 (a stored
\* total that the sanitizer keeps because it is within the tolerance of 0.01
\* counts as equal).
C19_TotalFromParts ==
    [][Sanitize
       => LET subtotal == Float(Get(record', "subtotal", PyNone))
              total == Float(Get(record', "total_amount", PyNone))
          IN  /\ subtotal # None
              /\ total # None
              /\ Abs(total[1] - Round2(subtotal[1] + Coerced(record', "tax_amount")
                                       + Coerced(record', "delivery_fee")
                                       + Coerced(record', "tip_amount")
                                       - Coerced(record', "discount_amount"))) <= Tolerance]_vars

\* the stored subtotal and total are numbers within the tolerance of what
\* the items and the parts add up to
Consistent(r) ==
    LET subtotal == Float(Get(r, "subtotal", PyNone))
        total == Float(Get(r, "total_amount", PyNone))
    IN  /\ subtotal # None
        /\ total # None
        /\ ~Exceeds(subtotal[1], ComputeSubtotal(Get(r, "order_items", <<>>)))
        /\ ~Exceeds(total[1], Round2(subtotal[1] + Coerced(r, "tax_amount")
                                     + Coerced(r, "delivery_fee") + Coerced(r, "tip_amount")
                                     - Coerced(r, "discount_amount")))

\* C20: sanitization is idempotent: the record a pass returns is a record
\* the sanitizer changes nothing in, and a pass over a record that has been
\* through the sanitizer, or that is consistent already, changes no field
\* and increments none of the three counters.
C20_Idempotent ==
    [][Sanitize
       => /\ SanitizeOrderRecord(record').order = record'
          /\ Sanitary(record')
          /\ (passes >= 1 \/ Consistent(record))
                => (record' = record /\ counts' = counts)]_vars

\* C20 witness: the first pass corrected the subtotal and the total of the
\* record, and the second pass counted nothing
C20_Witness ==
    /\ passes = 2
    /\ counts = [records_sanitized |-> 1, subtotal_corrections |-> 1, total_corrections |-> 1]

\* the total recomputation raises in a pass over the record r
TotalStepRaises(r) == RecomputeTotal(ComputeAndUpdateSubtotal(r).order).raised

----------------------------------------------------------------------------
(* Properties of the dispatch listing *)

\* the order's restaurant has a latitude and a longitude that are numbers
Resolvable(o) ==
    /\ Float(o.restaurants.latitude) # None
    /\ Float(o.restaurants.longitude) # None

\* the restaurants of the fetched orders whose coordinates are resolved
ResolvedRestaurants == {rows[i].restaurant_id : i \in {j \in DOMAIN rows : Resolvable(rows[j])}}

\* where the restaurant first appears in the fetched orders
FirstIndex(rid) ==
    CHOOSE i \in DOMAIN rows :
        /\ rows[i].restaurant_id = rid
        /\ \A j \in DOMAIN rows : rows[j].restaurant_id = rid => i <= j

\* the place of a resolved restaurant among the resolved restaurants, in
\* the order of the fetched orders
Rank(rid) == Cardinality({r \in ResolvedRestaurants : FirstIndex(r) <= FirstIndex(rid)})

CeilDiv(n, k) == (n + k - 1) \div k

\* what the provider returned under key for the restaurant at place g: the
\* entry at its position in its own chunk, null when the request failed
Returned22(key, g) ==
    LET c == ((g - 1) \div MAX_DEST_PER_MATRIX) + 1
        position == ((g - 1) % MAX_DEST_PER_MATRIX) + 1
    IN  IF key \in DOMAIN calls[c].answer
        THEN calls[c].answer[key][1][position]
        ELSE PyNone

\* a number of the provider and a float of the listing are the same number
\* (or both null)
SameNumber(entry, value) ==
    IF entry = PyNone THEN value = PyNone
    ELSE value # PyNone /\ Float(value) = Float(entry)

\* C22: with N resolved destinations and the limit K, the listing issues
\* exactly ceil(N/K) matrix requests, each with at most K destinations, and
\* every order of a resolved restaurant carries the distance and duration
\* the provider returned at that restaurant's position in its own chunk.
C22_Chunking ==
    resp.op = "ready"
    => /\ Len(calls) = CeilDiv(Cardinality(ResolvedRestaurants), MAX_DEST_PER_MATRIX)
       /\ \A c \in DOMAIN calls :
             /\ Len(calls[c].coordinates) - 1 >= 1
             /\ Len(calls[c].coordinates) - 1 <= MAX_DEST_PER_MATRIX
       /\ \A i \in DOMAIN resp.body :
             resp.body[i].restaurant_id \in ResolvedRestaurants
             => /\ SameNumber(Returned22("distances", Rank(resp.body[i].restaurant_id)),
                              resp.body[i].distance_to_restaurant)
                /\ SameNumber(Returned22("durations", Rank(resp.body[i].restaurant_id)),
                              resp.body[i].duration_to_restaurant)

\* C22 witness: three resolved restaurants with the limit 2 went out as a
\* chunk of two and a chunk of one, and every order came back reachable
C22_Witness ==
    /\ resp.op = "ready"
    /\ MAX_DEST_PER_MATRIX = 2
    /\ Cardinality(ResolvedRestaurants) = 3
    /\ Len(calls) = 2
    /\ Len(calls[2].coordinates) = 2
    /\ \A i \in DOMAIN resp.body : resp.body[i].restaurant_reachable_by_road

\* the provider answered the request of the restaurant's chunk, with null
\* for the restaurant
NullFromProvider(rid) ==
    /\ rid \in ResolvedRestaurants
    /\ "distances" \in DOMAIN calls[((Rank(rid) - 1) \div MAX_DEST_PER_MATRIX) + 1].answer
    /\ Returned22("distances", Rank(rid)) = PyNone
    /\ Returned22("durations", Rank(rid)) = PyNone

\* C23: in the listing, every order of a restaurant for which the provider
\* returned null has null distance and duration (raw and converted, never
\* 0) and reachable = false; and an order's reachable flag is true exactly
\* when its distance is not null.
C23_NullIsUnreachable ==
    resp.op = "ready"
    => \A i \in DOMAIN resp.body :
          /\ resp.body[i].restaurant_reachable_by_road
                <=> resp.body[i].distance_to_restaurant # PyNone
          /\ NullFromProvider(resp.body[i].restaurant_id)
                => /\ resp.body[i].distance_to_restaurant = PyNone
                   /\ resp.body[i].duration_to_restaurant = PyNone
                   /\ resp.body[i].distance_to_restaurant_miles = PyNone
                   /\ resp.body[i].duration_to_restaurant_minutes = PyNone
                   /\ ~resp.body[i].restaurant_reachable_by_road

\* C23 witness: two orders share a restaurant the provider returned null
\* for, and another order of the listing is reachable
C23_Witness ==
    /\ resp.op = "ready"
    /\ \E i, j, k \in DOMAIN resp.body :
          /\ i # j
          /\ resp.body[i].restaurant_id = resp.body[j].restaurant_id
          /\ NullFromProvider(resp.body[i].restaurant_id)
          /\ resp.body[k].restaurant_reachable_by_road

\* C24: in the listing, an order whose restaurant has a missing, empty or
\* non-numeric coordinate is returned with null distance and duration and
\* reachable = false, the matrix requests carry one destination per resolved
\* restaurant and no other, and there is no request at all when no
\* restaurant is resolved.
C24_UnresolvedNotRequested ==
    resp.op = "ready"
    => /\ Len(resp.body) = Len(rows)
       /\ \A i \in DOMAIN rows :
             ~Resolvable(rows[i])
             => /\ resp.body[i].order_id = rows[i].order_id
                /\ resp.body[i].distance_to_restaurant = PyNone
                /\ resp.body[i].duration_to_restaurant = PyNone
                /\ ~resp.body[i].restaurant_reachable_by_road
       /\ \A c \in DOMAIN calls : \A d \in 2..Len(calls[c].coordinates) :
             \E i \in DOMAIN rows :
                /\ Resolvable(rows[i])
                /\ Float(rows[i].restaurants.latitude) = Some(calls[c].coordinates[d].lat)
                /\ Float(rows[i].restaurants.longitude) = Some(calls[c].coordinates[d].lng)
       /\ ResolvedRestaurants = {} => calls = <<>>

\* C24 witness: in a listing of three orders, the order of an unresolved
\* restaurant stands between the orders of two restaurants that went out
\* in one matrix request
C24_Witness ==
    /\ resp.op = "ready"
    /\ Len(rows) = 3
    /\ Resolvable(rows[1]) /\ ~Resolvable(rows[2]) /\ Resolvable(rows[3])
    /\ rows[1].restaurant_id # rows[3].restaurant_id
    /\ Len(calls) = 1
    /\ Len(calls[1].coordinates) = 3

----------------------------------------------------------------------------
(* More properties of the order state machine *)

\* C29: with update-status requests interleaving on one order, a stored
\* delivery code is set at most once: once an order has a code, no step
\* replaces it with another code, and no step takes delivery_code_used back
\* from true to false.
C29_CodeSetOnceUnderInterleaving ==
    [][\A id \in DOMAIN orders :
          Truthy(orders[id].delivery_code)
          => /\ orders'[id].delivery_code = orders[id].delivery_code
             /\ orders[id].delivery_code_used => orders'[id].delivery_code_used]_vars

\* C30: pickup precedes delivery: an order in status delivered has been in
\* status picked_up before, so that its actual_pickup_time and its delivery
\* code are set.
C30_PickupPrecedesDelivery ==
    \A id \in DOMAIN orders :
        orders[id].status = DELIVERED
        => /\ orders[id].actual_pickup_time # None
           /\ Truthy(orders[id].delivery_code)

----------------------------------------------------------------------------
(* Properties of the navigation route *)

\* the requests to the directions endpoint, the calls of geocode_address
\* for the restaurant and for the customer, and the reads of the users
\* table, among the calls of the last request
DirectionsCalls == {i \in DOMAIN calls : calls[i].kind = "directions"}
RestaurantGeocodes == {i \in DOMAIN calls : calls[i].kind = "geocode" /\ calls[i].who = "restaurant"}
CustomerGeocodes == {i \in DOMAIN calls : calls[i].kind = "geocode" /\ calls[i].who = "customer"}
UsersReads == {i \in DOMAIN calls : calls[i].kind = "users"}

\* a navigation request on an existing order has been answered
NavigationAnswered == resp.op = "navigation" /\ rows # <<>>

\* the restaurant has stored coordinates that are numbers
RestaurantStored ==
    /\ rows[1].restaurants.latitude \notin {PyNone, PyStr(<<>>)}
    /\ Float(rows[1].restaurants.latitude) # None
    /\ Float(rows[1].restaurants.longitude) # None

\* where the restaurant is: its stored coordinates, else where the geocoder
\* puts its address
RestaurantLocation ==
    IF RestaurantStored
    THEN [lat |-> Float(rows[1].restaurants.latitude)[1],
          lng |-> Float(rows[1].restaurants.longitude)[1]]
    ELSE [lat |-> 21000, lng |-> 81000]

\* the places a customer may be found at: the order's coordinates, the
\* geocoded delivery address, the coordinates of the profile
CustomerLocations ==
    {[lat |-> 30000, lng |-> 90000], [lat |-> 31000, lng |-> 91000],
     [lat |-> 32000, lng |-> 92000]}

\* C25: every route the directions endpoint is asked for runs, for an
\* assigned order, from the courier to the restaurant (to_restaurant), and
\* for a picked_up or en_route order from the restaurant to the customer
\* (to_customer), never from the courier; a successful answer carries that
\* phase and those endpoints.
C25_RouteByStatus ==
    NavigationAnswered
    => /\ \A i \in DirectionsCalls :
             \/ /\ rows[1].status = ASSIGNED
                /\ calls[i].origin \in Drivers
                /\ calls[i].destination = RestaurantLocation
             \/ /\ rows[1].status \in {PICKED_UP, EN_ROUTE}
                /\ calls[i].origin = RestaurantLocation
                /\ calls[i].origin \notin Drivers
                /\ calls[i].destination \in CustomerLocations
       /\ resp.status_code = 200
             => /\ DirectionsCalls = {Len(calls)}
                /\ resp.body[1].origin = calls[Len(calls)].origin
                /\ resp.body[1].destination = calls[Len(calls)].destination
                /\ resp.body[1].route_type =
                      (IF rows[1].status = ASSIGNED THEN "to_restaurant" ELSE "to_customer")

\* C25 witness: an en_route order was routed from its restaurant, located
\* by geocoding, to its customer
C25_Witness ==
    /\ NavigationAnswered
    /\ rows[1].status = EN_ROUTE
    /\ resp.status_code = 200
    /\ resp.body[1].route_type = "to_customer"
    /\ resp.body[1].origin = [lat |-> 21000, lng |-> 81000]

\* C26 as stated: a navigation request for an existing order whose status
\* is none of assigned, picked_up, en_route is rejected with the 400 "Order
\* status ... does not require navigation" and no directions request is
\* made, whatever the coordinates of the restaurant and the customer.
C26_NotApplicableWhateverCoordinates ==
    (NavigationAnswered /\ rows[1].status \notin {ASSIGNED, PICKED_UP, EN_ROUTE})
    => /\ resp.status_code = 400
       /\ resp.body[1] = NotApplicable(rows[1].status)
       /\ DirectionsCalls = {}

\* the restaurant was located: by its stored coordinates or by a call of
\* the geocoder that found its address
RestaurantLocated ==
    RestaurantStored \/ \E i \in RestaurantGeocodes : calls[i].answer # None

\* C26 amended: a navigation request for an existing order whose status is
\* none of assigned, picked_up, en_route is rejected with a 400 and no
\* directions request is made; the error is "Order status ... does not
\* require navigation" when the restaurant was located, and "Restaurant
\* location not available" when it was not.
C26_NotApplicable ==
    (NavigationAnswered /\ rows[1].status \notin {ASSIGNED, PICKED_UP, EN_ROUTE})
    => /\ resp.status_code = 400
       /\ DirectionsCalls = {}
       /\ resp.body[1] = (IF RestaurantLocated
                          THEN NotApplicable(rows[1].status)
                          ELSE Detail("Restaurant location not available"))

\* C26 witness: a delivered order whose restaurant has text for a latitude
\* and an address the geocoder did not find was answered that the
\* restaurant's location is not available
C26_Witness ==
    /\ NavigationAnswered
    /\ rows[1].status = DELIVERED
    /\ rows[1].restaurants.latitude = PyStr(<<"a", "b", "c">>)
    /\ RestaurantGeocodes # {}
    /\ resp.status_code = 400
    /\ resp.body[1] = Detail("Restaurant location not available")

\* C27: when the restaurant has no stored coordinates and no geocoding of
\* its address finds it, the navigation request is answered 400
\* "Restaurant location not available" and no directions request is made.
C27_RestaurantUnavailable ==
    (NavigationAnswered /\ ~RestaurantLocated)
    => /\ resp.status_code = 400
       /\ resp.body[1] = Detail("Restaurant location not available")
       /\ DirectionsCalls = {}

\* C27 witness: an assigned order whose restaurant has no latitude and
\* whose address was geocoded in vain, twice
C27_Witness ==
    /\ NavigationAnswered
    /\ rows[1].status = ASSIGNED
    /\ rows[1].restaurants.latitude = PyNone
    /\ Cardinality(RestaurantGeocodes) = 2
    /\ \A i \in RestaurantGeocodes : calls[i].answer = None
    /\ resp.status_code = 400

\* the order has stored coordinates that are numbers
CustomerStored ==
    /\ rows[1].latitude \notin {PyNone, PyStr(<<>>)}
    /\ Float(rows[1].latitude) # None
    /\ Float(rows[1].longitude) # None

\* the request got as far as the customer's leg: the restaurant was located
\* and the order is picked_up or en_route
CustomerLeg == RestaurantLocated /\ rows[1].status \in {PICKED_UP, EN_ROUTE}

\* where the request took the customer to be: the destination of its
\* directions request, or nowhere when it answered that the customer's
\* location is not geocoded
CustomerTaken(place) ==
    IF place = None
    THEN /\ DirectionsCalls = {}
         /\ resp.status_code = 400
         /\ resp.body[1] = Detail("Customer location not geocoded")
    ELSE /\ DirectionsCalls # {}
         /\ \A i \in DirectionsCalls : calls[i].destination = place[1]

\* C28: the customer's location is the order's stored coordinates when both
\* are numbers, and then nothing else is consulted; otherwise, when the
\* order has a delivery address, it is what geocoding that address gives,
\* nothing when it fails, and the users table is never read; the profile
\* coordinates of the users table are read only when there is no delivery
\* address.
C28_CustomerChain ==
    NavigationAnswered
    => IF CustomerStored
       THEN /\ CustomerGeocodes = {} /\ UsersReads = {}
            /\ CustomerLeg
                  => CustomerTaken(Some([lat |-> Float(rows[1].latitude)[1],
                                         lng |-> Float(rows[1].longitude)[1]]))
       ELSE IF Truthy(rows[1].delivery_address)
       THEN /\ Cardinality(CustomerGeocodes) = 1 /\ UsersReads = {}
            /\ \A i \in CustomerGeocodes :
                  /\ calls[i].address = rows[1].delivery_address
                  /\ CustomerLeg => CustomerTaken(calls[i].answer)
       ELSE /\ CustomerGeocodes = {}
            /\ Cardinality(UsersReads) = (IF Truthy(rows[1].user_id) THEN 1 ELSE 0)
            /\ \A i \in UsersReads :
                  CustomerLeg
                  => CustomerTaken(IF calls[i].answer # <<>>
                                      /\ calls[i].answer[1].latitude # PyNone
                                   THEN Some([lat |-> 32000, lng |-> 92000])
                                   ELSE None)

\* C28 witness: a picked_up order with no coordinates of its own and a
\* delivery address the geocoder did not find was refused, the users table
\* unread
C28_Witness ==
    /\ NavigationAnswered
    /\ rows[1].status = PICKED_UP
    /\ rows[1].latitude = PyNone
    /\ Truthy(rows[1].user_id)
    /\ \E i \in CustomerGeocodes : calls[i].answer = None
    /\ UsersReads = {}
    /\ resp.body[1] = Detail("Customer location not geocoded")

----------------------------------------------------------------------------
(* More properties of the dispatch listing *)

\* the annotations of an entry of the listing
Annotations ==
    {"distance_to_restaurant", "duration_to_restaurant", "distance_to_restaurant_miles",
     "restaurant_reachable_by_road", "duration_to_restaurant_minutes"}

\* C32: the listing returns exactly one annotated entry for each fetched
\* order, in the order fetched: the entry at place i is the fetched order at
\* place i with the five annotations added, whatever the number of chunks,
\* the sharing of restaurants and the resolvability of each restaurant.
C32_OneEntryPerOrderInOrder ==
    resp.op = "ready"
    => /\ resp.status_code = 200
       /\ Len(resp.body) = Len(rows)
       /\ \A i \in DOMAIN rows :
             /\ DOMAIN resp.body[i] = DOMAIN rows[i] \cup Annotations
             /\ \A k \in DOMAIN rows[i] : resp.body[i][k] = rows[i][k]

\* C32 witness: three orders, the first and the last of one restaurant, the
\* second of a restaurant without coordinates, listed with the limit 1
C32_Witness ==
    /\ resp.op = "ready"
    /\ Len(resp.body) = 3
    /\ rows[1].restaurant_id = rows[3].restaurant_id
    /\ rows[1].restaurant_id # rows[2].restaurant_id
    /\ Resolvable(rows[1]) /\ ~Resolvable(rows[2])
    /\ MAX_DEST_PER_MATRIX = 1
    /\ resp.body[1].order_id = 1 /\ resp.body[2].order_id = 2 /\ resp.body[3].order_id = 3

\* the chunk a resolved restaurant goes out in
ChunkOf(rid) == ((Rank(rid) - 1) \div MAX_DEST_PER_MATRIX) + 1

\* the matrix requests that failed with an HTTP error
FailedChunks == {c \in DOMAIN calls : calls[c].answer = NoData}

\* C39: when the matrix request of a chunk fails with an HTTP error, the
\* listing still returns 200 with every order; the orders whose restaurants
\* are in that chunk have null distance and duration and reachable = false,
\* and the orders whose restaurants are in the other chunks carry the
\* values the provider returned for them.
C39_FailedChunkOnly ==
    (resp.op = "ready" /\ FailedChunks # {})
    => /\ resp.status_code = 200
       /\ Len(resp.body) = Len(rows)
       /\ \A i \in DOMAIN resp.body :
             resp.body[i].restaurant_id \in ResolvedRestaurants
             => IF ChunkOf(resp.body[i].restaurant_id) \in FailedChunks
                THEN /\ resp.body[i].distance_to_restaurant = PyNone
                     /\ resp.body[i].duration_to_restaurant = PyNone
                     /\ resp.body[i].distance_to_restaurant_miles = PyNone
                     /\ resp.body[i].duration_to_restaurant_minutes = PyNone
                     /\ ~resp.body[i].restaurant_reachable_by_road
                ELSE LET c == calls[ChunkOf(resp.body[i].restaurant_id)]
                         position == ((Rank(resp.body[i].restaurant_id) - 1) % MAX_DEST_PER_MATRIX) + 1
                     IN  /\ SameNumber(c.answer.distances[1][position],
                                       resp.body[i].distance_to_restaurant)
                         /\ SameNumber(c.answer.durations[1][position],
                                       resp.body[i].duration_to_restaurant)
                         /\ resp.body[i].restaurant_reachable_by_road
                               <=> c.answer.distances[1][position] # PyNone

\* C39 witness: of two requests the first failed and the second was
\* answered; the order of the first is unreachable and the order of the
\* second has its distance
C39_Witness ==
    /\ resp.op = "ready"
    /\ Len(calls) = 2
    /\ FailedChunks = {1}
    /\ \E i, j \in DOMAIN resp.body :
          /\ ChunkOf(resp.body[i].restaurant_id) = 1
          /\ ~resp.body[i].restaurant_reachable_by_road
          /\ ChunkOf(resp.body[j].restaurant_id) = 2
          /\ resp.body[j].restaurant_reachable_by_road
          /\ resp.body[j].distance_to_restaurant # PyNone

----------------------------------------------------------------------------
(* Properties of the counters *)

\* the inequalities of a snapshot of the counters
Coherent(c) ==
    /\ c.subtotal_corrections <= c.records_sanitized
    /\ c.total_corrections <= c.records_sanitized
    /\ c.records_sanitized <= c.subtotal_corrections + c.total_corrections

\* C31: passes of several threads lose no counter update: when every pass
\* has returned, each counter is the number of passes that made its
\* correction; and every snapshot the metrics accessor returns satisfies
\* max(subtotal_corrections, total_corrections) <= records_sanitized
\* <= subtotal_corrections + total_corrections.
C31_NoLostUpdates ==
    /\ (\A w \in workers : req[w].pc = "idle") => counts = made
    /\ resp.op = "metrics" => Coherent(resp.body[1])
    /\ sanitization_lock = Unlocked => Coherent(counts)

\* C31 witness: two passes have returned, one that corrected the total and
\* one that corrected both; the metrics were read after the first
C31_Witness ==
    /\ \A w \in workers : req[w].pc = "idle"
    /\ counts = [records_sanitized |-> 2, subtotal_corrections |-> 1, total_corrections |-> 2]
    /\ resp.op = "metrics"
    /\ resp.body[1].records_sanitized = 1

----------------------------------------------------------------------------
(* Properties of the courier and the code over the life of an order *)

\* C34: a delivery code is single-use: once a verification has succeeded
\* for an order (delivery_code_used is true), no later verification of that
\* order succeeds, whatever status changes happen in between.
C34_CodeSingleUse ==
    [][\A w \in Workers :
          (/\ req[w].op = "verify"
           /\ req[w].pc = "update"
           /\ req'[w].pc = "done"
           /\ req'[w].response.status_code = 200)
          => ~orders[req[w].order_id].delivery_code_used]_vars

\* the orders a courier holds: his, in assigned, picked_up or en_route
Held(d) ==
    {id \in DOMAIN orders :
        /\ orders[id].delivery_user_id = Some(d)
        /\ orders[id].status \in {ASSIGNED, PICKED_UP, EN_ROUTE}}

\* C35: with the busy check enabled, under any interleaving of assign,
\* update-status, verify-delivery and cancel calls, each courier is the
\* delivery_user_id of at most one order in assigned, picked_up or en_route.
C35_OneActiveOrderPerCourier ==
    ENABLE_ACTIVE_ORDER_CHECK => \A d \in couriers : Cardinality(Held(d)) <= 1

\* C36 as stated: in every reachable state, an order whose status is
\* assigned, picked_up or en_route has a non-null delivery_user_id.
C36_ActiveOrderHasCourier ==
    \A id \in DOMAIN orders :
        orders[id].status \in {ASSIGNED, PICKED_UP, EN_ROUTE}
        => orders[id].delivery_user_id # None

\* the step is the write of an assign call on the order
AssignWrites(w, id) ==
    /\ req[w].op = "assign"
    /\ req[w].pc = "update"
    /\ req[w].order_id = id
    /\ req'[w].pc = "done"

\* C36 amended: the write of an assign call sets the order's status to
\* assigned together with a non-null delivery_user_id, and no operation
\* takes a delivery_user_id back to null, so an order an assign call has
\* written has a non-null delivery_user_id in every later state; an order
\* that update-status alone moved to assigned, picked_up or en_route has
\* none.
C36_CourierSetByAssignAndKept ==
    [][\A id \in DOMAIN orders :
          /\ orders[id].delivery_user_id # None => orders'[id].delivery_user_id # None
          /\ \A w \in Workers :
                AssignWrites(w, id)
                => /\ orders'[id].status = ASSIGNED
                   /\ orders'[id].delivery_user_id = Some(req[w].delivery_user_id)]_vars

\* C36 witness: an order that was assigned and then picked up and
\* cancelled still names its courier
C36_Witness ==
    \E id \in DOMAIN orders :
        /\ orders[id].status = CANCELLED
        /\ orders[id].actual_pickup_time # None
        /\ orders[id].delivery_user_id # None

\* C37: with requests served one at a time, once an order's
\* delivery_user_id is a courier, no later successful assign call replaces
\* it with a different courier, whatever update-status calls happen in
\* between.
C37_CourierNeverReplaced ==
    [][\A id \in DOMAIN orders : \A w \in Workers :
          (AssignWrites(w, id) /\ orders[id].delivery_user_id # None)
          => orders'[id].delivery_user_id = orders[id].delivery_user_id]_vars

----------------------------------------------------------------------------
(* Properties of the reads *)

\* C38: a read never writes to the order store: over a get-order, a list by
\* user, restaurant or courier, a list-ready or a navigation call, the store
\* holds the same orders with the same fields, whatever the call filled in
\* or recomputed on the copy it returned (every step of the reads on their
\* own is one of these calls)
C38_ReadsNeverWrite == [][orders' = orders]_vars

\* get-order has answered with a copy that differs from the stored row: the
\* row has no address and no latitude and its subtotal has drifted from its
\* items, the copy has the placeholder address, the latitude of the user and
\* the recomputed subtotal
C38_Witness ==
    /\ resp.op = "get"
    /\ resp.status_code = 200
    /\ \E id \in DOMAIN orders, udata \in UserRows :
          /\ resp.body[1] = NormalizedOrder(EnsureDeliveryAddress(orders[id], udata))
          /\ orders[id].delivery_address = PyNone
          /\ resp.body[1].delivery_address = Placeholder
          /\ "latitude" \notin DOMAIN orders[id]
          /\ "latitude" \in DOMAIN resp.body[1]
          /\ resp.body[1].subtotal # orders[id].subtotal

----------------------------------------------------------------------------
(* Properties of the delivery routes call by call *)

\* the worker is inside a list-ready or a navigation request
InFlight(w) == req[w].pc \in {"select", "gather", "locate", "directions"}

\* C33: every list-ready and every navigation request completes with a
\* response, success or error, when every store call returns and every
\* provider call returns or times out: the fan-in over the chunk requests
\* never waits forever on a slow or failed chunk
C33_RequestsComplete == \A w \in Workers : InFlight(w) ~> req[w].pc = "done"

\* a list-ready request of two chunks has completed with its listing though
\* the request of a chunk failed
C33_Witness ==
    /\ resp.op = "ready"
    /\ resp.status_code = 200
    /\ \E w \in workers : req[w].pc = "done" /\ req[w].op = "ready"
    /\ Len(calls) = 2
    /\ \E c \in DOMAIN calls : calls[c].answer = NoData

====
